---- MODULE Spec2Model ----
(***************************************************************************)
(* NekoNexus: the hierarchical request-classification and delegation       *)
(* protocol (ManagerCat -> DataManagerCat -> DataAnalystCat), the keyword  *)
(* classifiers of the other nodes, the bounded history buffers, the        *)
(* MonitorCat background loop, the pattern matching and similarity search  *)
(* of ErrorHandlerCat, and the SqliteAgentStorage message and memory store.*)
(*                                                                         *)
(* Text is a sequence of Unicode code points (a Python str); a keyword     *)
(* list is a sequence of such texts, copied from the source with the       *)
(* original text beside each entry.                                        *)
(***************************************************************************)
EXTENDS Integers, Sequences, FiniteSets, TLC

NIL == "nil"

----------------------------------------------------------------------------
(* Text primitives                                                         *)

\* str.lower() on one code point: ASCII "A".."Z" map to "a".."z"; the kana and
\* kanji of the keyword lists have no case and map to themselves.
LowerChar(c) == IF c >= 65 /\ c <= 90 THEN c + 32 ELSE c

\* str.lower()
Lower(s) == [i \in 1..Len(s) |-> LowerChar(s[i])]

\* Python's `keyword in request` for two texts: keyword occurs as a
\* contiguous substring of request.
Contains(keyword, request) ==
  \E i \in 0..(Len(request) - Len(keyword)) :
     \A j \in 1..Len(keyword) : request[i + j] = keyword[j]

\* sum(1 for keyword in keywords if keyword in request)
Score(keywords, request) ==
  Cardinality({i \in 1..Len(keywords) : Contains(keywords[i], request)})

\* any(keyword in request for keyword in keywords)
AnyKeyword(keywords, request) ==
  \E i \in 1..Len(keywords) : Contains(keywords[i], request)

\* max(a, b, c)
Max3(a, b, c) ==
  IF a >= b /\ a >= c THEN a ELSE IF b >= c THEN b ELSE c

----------------------------------------------------------------------------
(* Keyword tables                                                          *)

\* ManagerCat: data_keywords, src/src/agents/manager/manager_cat.py lines 185-189
data_keywords ==
  <<
    <<12487, 12540, 12479>>,  \* "データ"
    <<20998, 26512>>,  \* "分析"
    <<32113, 35336>>,  \* "統計"
    <<12464, 12521, 12501>>,  \* "グラフ"
    <<12481, 12515, 12540, 12488>>,  \* "チャート"
    <<21487, 35222, 21270>>,  \* "可視化"
    <<20670, 21521>>,  \* "傾向"
    <<30456, 38306>>,  \* "相関"
    <<20104, 28204>>,  \* "予測"
    <<22770, 19978>>,  \* "売上"
    <<12524, 12509, 12540, 12488>>,  \* "レポート"
    <<38598, 35336>>,  \* "集計"
    <<24773, 22577>>,  \* "情報"
    <<35519, 26619>>,  \* "調査"
    <<27604, 36611>>,  \* "比較"
    <<20998, 39006>>,  \* "分類"
    <<38598, 12417, 12427>>,  \* "集める"
    <<25968, 23383>>,  \* "数字"
    <<22259, 34920>>,  \* "図表"
    <<12488, 12524, 12531, 12489>>,  \* "トレンド"
    <<36039, 26009>>,  \* "資料"
    <<25512, 31227>>,  \* "推移"
    <<22793, 21270>>,  \* "変化"
    <<35519, 12409, 12427>>,  \* "調べる"
    <<26908, 32034>>  \* "検索"
  >>

\* ManagerCat: operation_keywords, src/src/agents/manager/manager_cat.py lines 192-196
operation_keywords ==
  <<
    <<26989, 21209>>,  \* "業務"
    <<12458, 12506, 12524, 12540, 12471, 12519, 12531>>,  \* "オペレーション"
    <<12503, 12525, 12475, 12473>>,  \* "プロセス"
    <<20316, 26989>>,  \* "作業"
    <<12501, 12525, 12540>>,  \* "フロー"
    <<25163, 38918>>,  \* "手順"
    <<21177, 29575, 21270>>,  \* "効率化"
    <<25913, 21892>>,  \* "改善"
    <<26368, 36969, 21270>>,  \* "最適化"
    <<12503, 12525, 12472, 12455, 12463, 12488>>,  \* "プロジェクト"
    <<31649, 29702>>,  \* "管理"
    <<23455, 34892>>,  \* "実行"
    <<23455, 26045>>,  \* "実施"
    <<35336, 30011>>,  \* "計画"
    <<12473, 12465, 12472, 12517, 12540, 12523>>,  \* "スケジュール"
    <<12479, 12473, 12463>>,  \* "タスク"
    <<36939, 29992>>,  \* "運用"
    <<35373, 35336>>,  \* "設計"
    <<36914, 25431>>,  \* "進捗"
    <<29366, 27841>>,  \* "状況"
    <<36914, 12417, 12427>>,  \* "進める"
    <<25512, 36914>>,  \* "推進"
    <<23455, 35013>>,  \* "実装"
    <<23566, 20837>>  \* "導入"
  >>

\* ManagerCat: system_keywords, src/src/agents/manager/manager_cat.py lines 199-203
system_keywords ==
  <<
    <<12471, 12473, 12486, 12512>>,  \* "システム"
    <<12469, 12540, 12496, 12540>>,  \* "サーバー"
    <<12493, 12483, 12488, 12527, 12540, 12463>>,  \* "ネットワーク"
    <<12452, 12531, 12501, 12521>>,  \* "インフラ"
    <<12475, 12461, 12517, 12522, 12486, 12451>>,  \* "セキュリティ"
    <<27083, 25104>>,  \* "構成"
    <<35373, 23450>>,  \* "設定"
    <<29872, 22659>>,  \* "環境"
    <<12487, 12503, 12525, 12452>>,  \* "デプロイ"
    <<12513, 12531, 12486, 12490, 12531, 12473>>,  \* "メンテナンス"
    <<20445, 23432>>,  \* "保守"
    <<12496, 12483, 12463, 12450, 12483, 12503>>,  \* "バックアップ"
    <<30435, 35222>>,  \* "監視"
    <<36890, 30693>>,  \* "通知"
    <<12450, 12521, 12540, 12488>>,  \* "アラート"
    <<38556, 23475>>,  \* "障害"
    <<24489, 26087>>,  \* "復旧"
    <<35386, 26029>>,  \* "診断"
    <<12486, 12473, 12488>>,  \* "テスト"
    <<12496, 12464>>,  \* "バグ"
    <<12456, 12521, 12540>>  \* "エラー"
  >>

\* DataManagerCat: research_keywords, src/src/agents/data_manager/data_manager_cat.py lines 241-241
research_keywords ==
  <<
    <<35519, 26619>>,  \* "調査"
    <<26908, 32034>>,  \* "検索"
    <<24773, 22577, 21454, 38598>>,  \* "情報収集"
    <<35519, 12409, 12390>>,  \* "調べて"
    <<25506, 12375, 12390>>,  \* "探して"
    <<30906, 35469, 12375, 12390>>  \* "確認して"
  >>

\* DataManagerCat: analysis_keywords, src/src/agents/data_manager/data_manager_cat.py lines 244-244
analysis_keywords ==
  <<
    <<20998, 26512>>,  \* "分析"
    <<32113, 35336>>,  \* "統計"
    <<30456, 38306>>,  \* "相関"
    <<20670, 21521>>,  \* "傾向"
    <<12464, 12521, 12501>>,  \* "グラフ"
    <<21487, 35222, 21270>>,  \* "可視化"
    <<20104, 28204>>  \* "予測"
  >>

\* OperationCat: document_keywords, src/src/agents/operation_manager/operation_cat.py lines 141-141
document_keywords ==
  <<
    <<12489, 12461, 12517, 12513, 12531, 12488>>,  \* "ドキュメント"
    <<12524, 12509, 12540, 12488>>,  \* "レポート"
    <<25991, 26360>>,  \* "文書"
    <<12513, 12540, 12523>>,  \* "メール"
    <<22577, 21578, 26360>>,  \* "報告書"
    <<20316, 25104>>,  \* "作成"
    <<25991, 31456>>  \* "文章"
  >>

\* OperationCat: schedule_keywords, src/src/agents/operation_manager/operation_cat.py lines 144-144
schedule_keywords ==
  <<
    <<12473, 12465, 12472, 12517, 12540, 12523>>,  \* "スケジュール"
    <<20104, 23450>>,  \* "予定"
    <<20250, 35696>>,  \* "会議"
    <<35519, 25972>>,  \* "調整"
    <<26085, 31243>>,  \* "日程"
    <<12459, 12524, 12531, 12480, 12540>>,  \* "カレンダー"
    <<20104, 32004>>  \* "予約"
  >>

\* SystemCat: status_keywords, src/src/agents/system_manager/system_cat.py lines 155-155
status_keywords ==
  <<
    <<29366, 24907>>,  \* "状態"
    <<12473, 12486, 12540, 12479, 12473>>,  \* "ステータス"
    <<29366, 27841>>,  \* "状況"
    <<30906, 35469>>,  \* "確認"
    <<30435, 35222>>,  \* "監視"
    <<12497, 12501, 12457, 12540, 12510, 12531, 12473>>  \* "パフォーマンス"
  >>

\* SystemCat: error_keywords, src/src/agents/system_manager/system_cat.py lines 158-158
error_keywords ==
  <<
    <<12456, 12521, 12540>>,  \* "エラー"
    <<21839, 38988>>,  \* "問題"
    <<38556, 23475>>,  \* "障害"
    <<12496, 12464>>,  \* "バグ"
    <<12463, 12521, 12483, 12471, 12517>>,  \* "クラッシュ"
    <<33853, 12385, 12427>>,  \* "落ちる"
    <<21205, 12363, 12394, 12356>>  \* "動かない"
  >>

\* SystemCat: optimization_keywords, src/src/agents/system_manager/system_cat.py lines 161-161
optimization_keywords ==
  <<
    <<26368, 36969, 21270>>,  \* "最適化"
    <<25913, 21892>>,  \* "改善"
    <<39640, 36895, 21270>>,  \* "高速化"
    <<21177, 29575, 21270>>,  \* "効率化"
    <<12481, 12517, 12540, 12491, 12531, 12464>>,  \* "チューニング"
    <<12497, 12501, 12457, 12540, 12510, 12531, 12473, 21521, 19978>>  \* "パフォーマンス向上"
  >>

\* SystemCat: security_keywords, src/src/agents/system_manager/system_cat.py lines 164-164
security_keywords ==
  <<
    <<12475, 12461, 12517, 12522, 12486, 12451>>,  \* "セキュリティ"
    <<23433, 20840>>,  \* "安全"
    <<33030, 24369, 24615>>,  \* "脆弱性"
    <<20445, 35703>>,  \* "保護"
    <<12454, 12452, 12523, 12473>>,  \* "ウイルス"
    <<12495, 12483, 12461, 12531, 12464>>  \* "ハッキング"
  >>

\* SchedulerCat: view_keywords, src/src/agents/operation_manager/scheduler/scheduler_cat.py lines 175-175
view_keywords ==
  <<
    <<30906, 35469>>,  \* "確認"
    <<34920, 31034>>,  \* "表示"
    <<35211, 12379, 12390>>,  \* "見せて"
    <<25945, 12360, 12390>>,  \* "教えて"
    <<12473, 12465, 12472, 12517, 12540, 12523>>,  \* "スケジュール"
    <<20104, 23450>>,  \* "予定"
    <<12459, 12524, 12531, 12480, 12540>>  \* "カレンダー"
  >>

\* SchedulerCat: create_keywords, src/src/agents/operation_manager/scheduler/scheduler_cat.py lines 178-178
create_keywords ==
  <<
    <<20316, 25104>>,  \* "作成"
    <<30331, 37682>>,  \* "登録"
    <<36861, 21152>>,  \* "追加"
    <<20837, 12428, 12390>>,  \* "入れて"
    <<20104, 32004>>,  \* "予約"
    <<26032, 12375, 12356>>,  \* "新しい"
    <<26032, 35215>>  \* "新規"
  >>

\* SchedulerCat: update_keywords, src/src/agents/operation_manager/scheduler/scheduler_cat.py lines 181-181
update_keywords ==
  <<
    <<22793, 26356>>,  \* "変更"
    <<26356, 26032>>,  \* "更新"
    <<20462, 27491>>,  \* "修正"
    <<31227, 21205>>,  \* "移動"
    <<35519, 25972>>,  \* "調整"
    <<24310, 26399>>  \* "延期"
  >>

\* SchedulerCat: delete_keywords, src/src/agents/operation_manager/scheduler/scheduler_cat.py lines 184-184
delete_keywords ==
  <<
    <<21066, 38500>>,  \* "削除"
    <<21462, 12426, 28040, 12375>>,  \* "取り消し"
    <<12461, 12515, 12531, 12475, 12523>>,  \* "キャンセル"
    <<20013, 27490>>,  \* "中止"
    <<38500, 22806>>  \* "除外"
  >>

\* DocumentCat: email_keywords, src/src/agents/operation_manager/document/document_cat.py lines 186-186
email_keywords ==
  <<
    <<12513, 12540, 12523>>,  \* "メール"
    <<101, 109, 97, 105, 108>>,  \* "email"
    <<109, 97, 105, 108>>,  \* "mail"
    <<69, 12513, 12540, 12523>>,  \* "Eメール"
    <<12513, 12483, 12475, 12540, 12472>>,  \* "メッセージ"
    <<36820, 20449>>,  \* "返信"
    <<36865, 20449>>  \* "送信"
  >>

\* DocumentCat: report_keywords, src/src/agents/operation_manager/document/document_cat.py lines 189-189
report_keywords ==
  <<
    <<12524, 12509, 12540, 12488>>,  \* "レポート"
    <<114, 101, 112, 111, 114, 116>>,  \* "report"
    <<22577, 21578, 26360>>,  \* "報告書"
    <<22577, 21578>>,  \* "報告"
    <<12524, 12509>>,  \* "レポ"
    <<25991, 26360>>,  \* "文書"
    <<12489, 12461, 12517, 12513, 12531, 12488>>  \* "ドキュメント"
  >>

\* DocumentCat: meeting_keywords, src/src/agents/operation_manager/document/document_cat.py lines 192-192
meeting_keywords ==
  <<
    <<20250, 35696>>,  \* "会議"
    <<109, 101, 101, 116, 105, 110, 103>>,  \* "meeting"
    <<12511, 12540, 12486, 12451, 12531, 12464>>,  \* "ミーティング"
    <<36039, 26009>>,  \* "資料"
    <<35696, 20107, 37682>>,  \* "議事録"
    <<12450, 12472, 12455, 12531, 12480>>,  \* "アジェンダ"
    <<12503, 12524, 12476, 12531>>  \* "プレゼン"
  >>
----------------------------------------------------------------------------
(* Classifiers                                                             *)

\* Variants of ManagerCat._determine_request_type with a slip: the default taken
\* only for a negative maximum, and the priority order operation, data, system.
ManagerCat_determine_request_type_NoDefault(request) ==
  LET data_score      == Score(data_keywords, request)
      operation_score == Score(operation_keywords, request)
      system_score    == Score(system_keywords, request)
      max_score       == Max3(data_score, operation_score, system_score)
  IN  IF max_score >= 0
      THEN IF data_score = max_score THEN "data"
           ELSE IF operation_score = max_score THEN "operation"
           ELSE "system"
      ELSE "general"

ManagerCat_determine_request_type_OperationFirst(request) ==
  LET data_score      == Score(data_keywords, request)
      operation_score == Score(operation_keywords, request)
      system_score    == Score(system_keywords, request)
      max_score       == Max3(data_score, operation_score, system_score)
  IN  IF max_score > 0
      THEN IF operation_score = max_score THEN "operation"
           ELSE IF data_score = max_score THEN "data"
           ELSE "system"
      ELSE "general"

\* ManagerCat._determine_request_type: the scores are taken on the request as
\* given (the lowered `words` of line 206 is never used).
ManagerCat_determine_request_type(request) ==
  LET data_score      == Score(data_keywords, request)
      operation_score == Score(operation_keywords, request)
      system_score    == Score(system_keywords, request)
      max_score       == Max3(data_score, operation_score, system_score)
  IN  IF max_score > 0
      THEN IF data_score = max_score THEN "data"
           ELSE IF operation_score = max_score THEN "operation"
           ELSE IF system_score = max_score THEN "system"
           ELSE "general"
      ELSE "general"

\* Variant of DataManagerCat._determine_request_type with a slip: the second
\* branch returns the first branch's category.
DataManagerCat_determine_request_type_SameBranch(request) ==
  LET request_lower == Lower(request)
      has_research  == AnyKeyword(research_keywords, request_lower)
      has_analysis  == AnyKeyword(analysis_keywords, request_lower)
  IN  IF has_research /\ ~has_analysis THEN "research_only"
      ELSE IF has_analysis /\ ~has_research THEN "research_only"
      ELSE "combined"

\* DataManagerCat._determine_request_type
DataManagerCat_determine_request_type(request) ==
  LET request_lower == Lower(request)
      has_research  == AnyKeyword(research_keywords, request_lower)
      has_analysis  == AnyKeyword(analysis_keywords, request_lower)
  IN  IF has_research /\ ~has_analysis THEN "research_only"
      ELSE IF has_analysis /\ ~has_research THEN "analysis_only"
      ELSE "combined"

\* OperationCat._determine_request_type
OperationCat_determine_request_type(request) ==
  LET request_lower == Lower(request)
      has_document  == AnyKeyword(document_keywords, request_lower)
      has_schedule  == AnyKeyword(schedule_keywords, request_lower)
  IN  IF has_document /\ ~has_schedule THEN "document"
      ELSE IF has_schedule /\ ~has_document THEN "schedule"
      ELSE "combined"

\* Variant of SystemCat._determine_request_type with a slip: "status" is
\* tested first.
SystemCat_determine_request_type_StatusFirst(request) ==
  LET request_lower == Lower(request)
  IN  IF AnyKeyword(status_keywords, request_lower) THEN "status"
      ELSE IF AnyKeyword(error_keywords, request_lower) THEN "error"
      ELSE IF AnyKeyword(optimization_keywords, request_lower) THEN "optimization"
      ELSE IF AnyKeyword(security_keywords, request_lower) THEN "security"
      ELSE "other"

\* SystemCat._determine_request_type
SystemCat_determine_request_type(request) ==
  LET request_lower == Lower(request)
  IN  IF AnyKeyword(error_keywords, request_lower) THEN "error"
      ELSE IF AnyKeyword(optimization_keywords, request_lower) THEN "optimization"
      ELSE IF AnyKeyword(security_keywords, request_lower) THEN "security"
      ELSE IF AnyKeyword(status_keywords, request_lower) THEN "status"
      ELSE "other"

\* SchedulerCat._determine_request_type
SchedulerCat_determine_request_type(request) ==
  LET request_lower == Lower(request)
  IN  IF /\ AnyKeyword(view_keywords, request_lower)
         /\ ~AnyKeyword(create_keywords \o update_keywords \o delete_keywords, request_lower)
      THEN "view"
      ELSE IF AnyKeyword(create_keywords, request_lower) THEN "create"
      ELSE IF AnyKeyword(update_keywords, request_lower) THEN "update"
      ELSE IF AnyKeyword(delete_keywords, request_lower) THEN "delete"
      ELSE "other"

\* DocumentCat._determine_document_type
DocumentCat_determine_document_type(request) ==
  LET request_lower == Lower(request)
  IN  IF AnyKeyword(email_keywords, request_lower) THEN "email"
      ELSE IF AnyKeyword(report_keywords, request_lower) THEN "report"
      ELSE IF AnyKeyword(meeting_keywords, request_lower) THEN "meeting"
      ELSE "other"

----------------------------------------------------------------------------
(* Requests                                                                *)

\* The phrases the classified requests are built from: a request is the
\* concatenation of at most MaxFragments of them, in any order and with
\* repetition.
Fragments ==
  <<
    <<22770, 19978, 12487, 12540, 12479, 12434>>,  \* "売上データを"
    <<20998, 26512, 12375, 12390>>,  \* "分析して"
    <<35519, 26619>>,  \* "調査"
    <<32113, 35336>>,  \* "統計"
    <<26989, 21209, 12473, 12465, 12472, 12517, 12540, 12523>>,  \* "業務スケジュール"
    <<12471, 12473, 12486, 12512, 12456, 12521, 12540>>,  \* "システムエラー"
    <<29366, 27841, 12434, 30906, 35469, 12375, 12390>>,  \* "状況を確認して"
    <<12524, 12509, 12540, 12488, 20316, 25104>>,  \* "レポート作成"
    <<77, 97, 105, 108>>,  \* "Mail"
    <<12371, 12435, 12395, 12385, 12399>>,  \* "こんにちは"
    <<12497, 12501, 12457, 12540, 12510, 12531, 12473, 21521, 19978>>,  \* "パフォーマンス向上"
    <<12475, 12461, 12517, 12522, 12486, 12451>>,  \* "セキュリティ"
    <<22793, 26356>>   \* "変更"
  >>

MaxFragments == 2

RECURSIVE Concat(_)
Concat(parts) ==
  IF parts = <<>> THEN <<>> ELSE Head(parts) \o Concat(Tail(parts))

Requests ==
  UNION {{Concat([i \in 1..k |-> Fragments[ix[i]]]) :
            ix \in [1..k -> 1..Len(Fragments)]} : k \in 0..MaxFragments}

\* The request of the sales-analysis scenario, "売上データを分析して".
SalesScenario ==
  <<22770, 19978, 12487, 12540, 12479, 12434, 20998, 26512, 12375, 12390>>

\* The requests a user sends to ManagerCat during a session.
UserRequests ==
  { <<>>,                                                   \* ""
    SalesScenario,                                          \* "売上データを分析して"
    <<12464, 12521, 12501, 12434, 20316, 25104>>,           \* "グラフを作成"
    <<22770, 19978, 12398, 32113, 35336>>,                  \* "売上の統計"
    <<20998, 26512, 12375, 12390>>,                         \* "分析して"
    <<22770, 19978, 12434, 35519, 26619>>,                  \* "売上を調査"
    <<22770, 19978, 12434, 35519, 26619, 12375, 12390, 20998, 26512>>,  \* "売上を調査して分析"
    <<12487, 12540, 12479>>,                                \* "データ"
    <<26989, 21209, 12473, 12465, 12472, 12517, 12540, 12523>>,  \* "業務スケジュール"
    <<12471, 12473, 12486, 12512, 12456, 12521, 12540>>,    \* "システムエラー"
    <<12371, 12435, 12395, 12385, 12399>> }                 \* "こんにちは"

----------------------------------------------------------------------------
(* State                                                                   *)

\* Python's None for an object reference; objects are numbered from 1 in the
\* order their constructors run.
None == 0

VARIABLES
  \* a classifier applied to one request
  node,              \* the classifier last applied ("none" before any)
  request,           \* the request text under classification
  request_type,      \* the category the classifier returned
  \* the ManagerCat tree
  user_request,      \* the argument of the last ManagerCat.process_request
  data_manager,      \* ManagerCat.data_manager
  data_analyst_cat,  \* DataManagerCat.data_analyst_cat of that data manager
  constructed,       \* constructor calls so far, per class
  trace,             \* the calls made while handling the last request, in order
  response,          \* what the last ManagerCat.process_request returned
  \* the file system and the clock seen by DataAnalystCat
  assets_exists,     \* the directory "assets" exists
  files,             \* timestamps t whose chart files assets/*_t.png exist
  now,               \* int(time.time())
  \* the bounded history buffers
  exercised,         \* the buffer under exercise ("none" when none is)
  appended,          \* how many items have been appended to it so far
  error_history,     \* ErrorHandlerCat.error_history
  metrics_history,   \* SystemCat.metrics_history
  monitoring_history,\* MonitorCat.monitoring_history
  \* MonitorCat and its background threads
  monitoring_active,   \* MonitorCat.monitoring_active
  monitoring_thread,   \* MonitorCat.monitoring_thread (None or a thread)
  monitoring_interval, \* MonitorCat.monitoring_interval
  alert_callback,      \* MonitorCat.alert_callback
  worker,            \* the threads running _monitoring_loop: where each is
  caller,            \* where the foreground caller is ("idle" or "joining")
  calls,             \* foreground calls made on the MonitorCat so far
  last_call,         \* the last foreground call and what it returned
  cycles,            \* loop cycles begun so far, all threads together
  stopped,           \* threads started before a stop_monitoring that returned True
  \* ErrorHandlerCat.handle_error
  current_error,     \* the error_info being handled (NoError before the first call)
  known_patterns,    \* what _match_known_patterns returned for it
  similar_errors,    \* what _get_similar_errors_summary reported for it
  handling,          \* the statements of handle_error executed so far for it
  \* SqliteAgentStorage: the two tables of the database file
  messages,          \* table messages, rows in rowid order
  saved_messages,    \* every message ever passed to save_message, with its agent_id
  uuids,             \* how many uuid4 values have been drawn
  memories,          \* table memories, rows in rowid order
  storage_call       \* the last call that wrote to the database, and what it returned

classifyVars == <<node, request, request_type>>
managerVars  == <<user_request, data_manager, data_analyst_cat, constructed,
                  trace, response, assets_exists, files, now>>
historyVars  == <<exercised, appended, error_history, metrics_history,
                  monitoring_history>>
monitorVars  == <<monitoring_active, monitoring_thread, monitoring_interval,
                  alert_callback, worker, caller, calls, last_call, cycles,
                  stopped>>
errorVars    == <<current_error, known_patterns, similar_errors, handling>>
storageVars  == <<messages, saved_messages, uuids, memories, storage_call>>
vars == <<classifyVars, managerVars, historyVars, monitorVars, errorVars,
          storageVars>>

NoInner == [kind |-> "none", timestamp |-> 0]
NoResponse == [by |-> "none", template |-> "none", inner |-> NoInner]
Event(call, detail) == [call |-> call, detail |-> detail]

\* No classifier is being exercised.
ClassifierIdle ==
  /\ node = "none"
  /\ request = <<>>
  /\ request_type = NIL

\* The state after ManagerCat(debug_mode) is constructed (ManagerCat.__init__):
\* no child yet. The directory "assets" may or may not exist beforehand.
ManagerConstructed ==
  /\ user_request = <<>>
  /\ data_manager = None
  /\ data_analyst_cat = None
  /\ constructed = [DataManagerCat |-> 0, DataAnalystCat |-> 0]
  /\ trace = <<>>
  /\ response = NoResponse
  /\ assets_exists \in BOOLEAN
  /\ files = {}
  /\ now = 0


\* The three history buffers as their constructors leave them
\* (ErrorHandlerCat.__init__, MonitorCat.__init__, SystemCat.__init__): empty.
HistoriesEmpty ==
  /\ exercised = "none"
  /\ appended = 0
  /\ error_history = <<>>
  /\ metrics_history = <<>>
  /\ monitoring_history = <<>>

\* A thread that has not been created yet.
NoMetrics == [cpu_percent |-> 0, memory_percent |-> 0, disk_percent |-> 0,
              process_count |-> 0]
Unstarted == [pc |-> "unstarted", metrics |-> NoMetrics, alerts |-> <<>>,
              detected |-> <<>>, delivered |-> <<>>, raised |-> "no"]
NoCall == [op |-> "none", interval |-> 0, alert_callback |-> "None",
           ret |-> "none"]

\* MonitorCat.__init__: monitoring is inactive, there is no thread and no
\* callback, the interval is 60 seconds.
MonitorCat_init(threads) ==
  /\ monitoring_active = FALSE
  /\ monitoring_thread = None
  /\ monitoring_interval = 60
  /\ alert_callback = "None"
  /\ worker = [w \in threads |-> Unstarted]
  /\ caller = "idle"
  /\ calls = 0
  /\ last_call = NoCall
  /\ cycles = 0
  /\ stopped = {}

\* A MonitorCat on which no thread will be started.
MonitorConstructed == MonitorCat_init({})

\* An error record: the dict passed to handle_error, with the identity of the
\* dict object (`is` compares identities, == compares the rest).
ErrorInfo(id, type, message, context) ==
  [id |-> id, type |-> type, message |-> message, context |-> context]

NoError == ErrorInfo(0, <<>>, <<>>, <<>>)

\* ErrorHandlerCat.__init__ leaves an empty history; no error handled yet.
ErrorHandlerIdle ==
  /\ current_error = NoError
  /\ known_patterns = <<>>
  /\ similar_errors = <<>>
  /\ handling = <<>>

\* A Python value: its type and what it holds, written as a literal.
PyValue(type, literal) == [type |-> type, literal |-> literal]
PyStr(s) == PyValue("str", s)
PyNone == PyValue("NoneType", "None")

\* A call on the storage: for save_memory the value passed and the id
\* returned, for save_message the id returned, for delete_memory whether rows
\* were deleted.
StorageCall(op, agent_id, key, value, id, deleted) ==
  [op |-> op, agent_id |-> agent_id, key |-> key, value |-> value, id |-> id,
   deleted |-> deleted]

\* SqliteAgentStorage.__init__ on a new database file: _ensure_database
\* creates the two tables, empty.
StorageCreated ==
  /\ messages = <<>>
  /\ saved_messages = <<>>
  /\ uuids = 0
  /\ memories = <<>>
  /\ storage_call = StorageCall("none", "", "", PyNone, 0, FALSE)
----------------------------------------------------------------------------
(* The classifiers, each applied to a request drawn from Requests          *)

InitClassify ==
  /\ node = "none"
  /\ request \in Requests
  /\ request_type = NIL
  /\ ManagerConstructed
  /\ assets_exists = TRUE
  /\ HistoriesEmpty
  /\ MonitorConstructed
  /\ ErrorHandlerIdle
  /\ StorageCreated

Classify(n, t) ==
  /\ node = "none"
  /\ node' = n
  /\ request_type' = t
  /\ UNCHANGED <<request, managerVars, historyVars, monitorVars, errorVars, storageVars>>

ManagerClassify ==
  Classify("ManagerCat", ManagerCat_determine_request_type(request))

DataManagerClassify ==
  Classify("DataManagerCat", DataManagerCat_determine_request_type(request))

OperationClassify ==
  Classify("OperationCat", OperationCat_determine_request_type(request))

SystemClassify ==
  Classify("SystemCat", SystemCat_determine_request_type(request))

SchedulerClassify ==
  Classify("SchedulerCat", SchedulerCat_determine_request_type(request))

DocumentClassify ==
  Classify("DocumentCat", DocumentCat_determine_document_type(request))

NextClassify ==
  \/ ManagerClassify
  \/ DataManagerClassify
  \/ OperationClassify
  \/ SystemClassify
  \/ SchedulerClassify
  \/ DocumentClassify

SpecClassify == InitClassify /\ [][NextClassify]_vars

----------------------------------------------------------------------------
(* DataAnalystCat                                                          *)

\* DataAnalystCat.analyze_data(request, data) with the file system fs =
\* [assets_exists, files] at time t. `data` is the kind of value passed:
\* "DataFrame", "None", or another kind ("list", "dict"), which fails the
\* test "data is not None and isinstance(data, pd.DataFrame)" as None does.
\* `fails` says that the call raises (the directory cannot be made, or
\* plotting fails), which is taken to happen before any chart file is
\* written.
\* Returns what the call returned or that it raised, and the file system after.
DataAnalystCat_analyze_data(data, fails, fs, t) ==
  IF fails
  THEN [raised |-> TRUE, ret |-> NoInner, assets_exists |-> fs.assets_exists,
        files |-> fs.files]
  ELSE IF data = "DataFrame"
  THEN \* _perform_real_data_analysis: four charts named by int(time.time())
       [raised |-> FALSE, ret |-> [kind |-> "report", timestamp |-> t],
        assets_exists |-> TRUE, files |-> fs.files \cup {t}]
  ELSE [raised |-> FALSE, ret |-> [kind |-> "guidance", timestamp |-> 0],
        assets_exists |-> TRUE, files |-> fs.files]

----------------------------------------------------------------------------
(* DataManagerCat                                                          *)

Uriage  == <<22770, 19978>>   \* "売上"
Bunseki == <<20998, 26512>>   \* "分析"

\* Variant with a slip: the request compared with "売上分析" as a whole.
IsSalesAnalysis_Equality(req) == req = Uriage \o Bunseki

\* Variant with a slip: one of the two words is enough.
IsSalesAnalysis_Either(req) == Contains(Uriage, req) \/ Contains(Bunseki, req)

\* "売上" in request and "分析" in request
IsSalesAnalysis(req) == Contains(Uriage, req) /\ Contains(Bunseki, req)

\* Variant with a slip: the specialist is never constructed.
DataManagerCat_initialize_sub_agents_if_needed_Never(analyst, n) == analyst

\* DataManagerCat._initialize_sub_agents_if_needed on a data manager whose
\* data_analyst_cat is `analyst`, when `n` DataAnalystCat objects exist:
\* the reference after the call.
DataManagerCat_initialize_sub_agents_if_needed(analyst, n) ==
  IF analyst = None THEN n + 1 ELSE analyst

\* DataManagerCat.process_request(req) on a data manager whose
\* data_analyst_cat is `analyst`. Returns the reference after the call, the
\* calls made, the response (or that an exception left the method) and the
\* file system after.
DataManagerCat_process_request(req, analyst, n, fails, fs, t) ==
  LET analyst1 == DataManagerCat_initialize_sub_agents_if_needed(analyst, n)
      built    == IF analyst1 # analyst
                  THEN <<Event("DataAnalystCat.__init__", "")>> ELSE <<>>
      type     == DataManagerCat_determine_request_type(req)
      head     == <<Event("DataManagerCat.process_request", "")>> \o built \o
                  <<Event("DataManagerCat._determine_request_type", type)>>
      fixed(template) ==
        [data_analyst_cat |-> analyst1, trace |-> head, raised |-> FALSE,
         response |-> [by |-> "DataManagerCat", template |-> template,
                       inner |-> NoInner],
         assets_exists |-> fs.assets_exists, files |-> fs.files]
      \* the call of the specialist; `guarded` says it sits in a try block
      forward(data, guarded, okTemplate) ==
        LET a == DataAnalystCat_analyze_data(data, fails, fs, t)
            tr == head \o <<Event("DataAnalystCat.analyze_data", data)>>
        IN  [data_analyst_cat |-> analyst1, trace |-> tr,
             raised |-> a.raised /\ ~guarded,
             response |->
               IF ~a.raised
               THEN [by |-> "DataManagerCat", template |-> okTemplate,
                     inner |-> a.ret]
               ELSE IF guarded
               THEN [by |-> "DataManagerCat", template |-> "analysis_error",
                     inner |-> NoInner]
               ELSE NoResponse,
             assets_exists |-> a.assets_exists, files |-> a.files]
  IN  IF type = "research_only"
      THEN fixed("research_unimplemented")
      ELSE IF type = "analysis_only"
      THEN IF IsSalesAnalysis(req)
           THEN forward("DataFrame", TRUE, "sales_analysis")
           ELSE forward("None", FALSE, "analysis")
      ELSE IF IsSalesAnalysis(req)
           THEN forward("DataFrame", TRUE, "combined_sales_analysis")
           ELSE fixed("unsupported")

----------------------------------------------------------------------------
(* ManagerCat                                                              *)

\* Variant with a slip: the None test is lost and every call constructs.
ManagerCat_initialize_sub_agents_if_needed_Always(manager, n) == n + 1

\* ManagerCat._initialize_sub_agents_if_needed: the data_manager reference
\* after the call, when `n` DataManagerCat objects exist.
ManagerCat_initialize_sub_agents_if_needed(manager, n) ==
  IF manager = None THEN n + 1 ELSE manager

\* Variant with a slip: the fallback text carries the data manager's header.
ManagerFallback_AsDataManager(template) ==
  [by |-> "DataManagerCat", template |-> template, inner |-> NoInner]

\* The static text ManagerCat returns for a request it forwards to no child:
\* wrapped_response, under ManagerCat's own header.
ManagerFallback(template) ==
  [by |-> "ManagerCat", template |-> template, inner |-> NoInner]

\* ManagerCat.process_request(req); `fails` is whether the analysis
\* specialist, if it is called, raises.
ManagerCat_process_request(req, fails) ==
  LET manager1 == ManagerCat_initialize_sub_agents_if_needed(
                    data_manager, constructed.DataManagerCat)
      fresh    == manager1 # data_manager
      built    == IF fresh THEN <<Event("DataManagerCat.__init__", "")>> ELSE <<>>
      type     == ManagerCat_determine_request_type(req)
      head     == <<Event("ManagerCat.process_request", "")>> \o built \o
                  <<Event("ManagerCat._determine_request_type", type)>>
      dm       == DataManagerCat_process_request(
                    req, data_analyst_cat, constructed.DataAnalystCat, fails,
                    [assets_exists |-> assets_exists, files |-> files], now)
  IN  /\ user_request' = req
      /\ data_manager' = manager1
      /\ IF type = "data"
         THEN /\ data_analyst_cat' = dm.data_analyst_cat
              /\ constructed' =
                   [DataManagerCat |-> constructed.DataManagerCat
                                        + (IF fresh THEN 1 ELSE 0),
                    DataAnalystCat |-> constructed.DataAnalystCat
                                        + (IF dm.data_analyst_cat # data_analyst_cat
                                           THEN 1 ELSE 0)]
              /\ trace' = head \o dm.trace
              /\ response' = IF dm.raised
                             THEN [by |-> "exception", template |-> "raised",
                                   inner |-> NoInner]
                             ELSE dm.response
              /\ assets_exists' = dm.assets_exists
              /\ files' = dm.files
         ELSE /\ constructed' =
                   [constructed EXCEPT !.DataManagerCat =
                                          @ + (IF fresh THEN 1 ELSE 0)]
              /\ trace' = head
              /\ response' =
                   IF type = "operation" THEN ManagerFallback("operation_unimplemented")
                   ELSE IF type = "system" THEN ManagerFallback("system_unimplemented")
                   ELSE ManagerFallback("general")
              /\ UNCHANGED <<data_analyst_cat, assets_exists, files>>
      /\ UNCHANGED <<now, classifyVars, historyVars, monitorVars, errorVars, storageVars>>

ProcessRequest ==
  \E req \in UserRequests, fails \in BOOLEAN : ManagerCat_process_request(req, fails)

\* time.time() advances between requests.
MaxClock == 2

Tick ==
  /\ now < MaxClock
  /\ now' = now + 1
  /\ UNCHANGED <<classifyVars, user_request, data_manager, data_analyst_cat,
                 constructed, trace, response, assets_exists, files,
                 historyVars, monitorVars, errorVars, storageVars>>

Init ==
  /\ ClassifierIdle
  /\ ManagerConstructed
  /\ HistoriesEmpty
  /\ MonitorConstructed
  /\ ErrorHandlerIdle
  /\ StorageCreated

Next ==
  \/ ProcessRequest
  \/ Tick

Spec == Init /\ [][Next]_vars


----------------------------------------------------------------------------
(* DataAnalystCat called directly                                          *)

\* What a caller can pass as `data` (Optional[Union[pd.DataFrame, List,
\* Dict]]): nothing, a DataFrame, a list, a dict.
DataKinds == {"None", "DataFrame", "list", "dict"}

\* Requests passed to analyze_data.
AnalystRequests ==
  { SalesScenario,                      \* "売上データを分析して"
    <<20998, 26512, 12375, 12390>>,     \* "分析して"
    <<>> }                              \* ""

\* A call analyst.analyze_data(req, data) on a constructed DataAnalystCat.
AnalyzeData(req, data, fails) ==
  LET a == DataAnalystCat_analyze_data(
             data, fails, [assets_exists |-> assets_exists, files |-> files],
             now)
  IN  /\ user_request' = req
      /\ trace' = <<Event("DataAnalystCat.analyze_data", data)>>
      /\ response' = IF a.raised
                     THEN [by |-> "exception", template |-> "raised",
                           inner |-> NoInner]
                     ELSE [by |-> "DataAnalystCat", template |-> "none",
                           inner |-> a.ret]
      /\ assets_exists' = a.assets_exists
      /\ files' = a.files
      /\ UNCHANGED <<data_manager, data_analyst_cat, constructed, now,
                     classifyVars, historyVars, monitorVars, errorVars,
                     storageVars>>

CallAnalyzeData ==
  \E req \in AnalystRequests, data \in DataKinds, fails \in BOOLEAN :
    AnalyzeData(req, data, fails)

\* A DataAnalystCat has been constructed (DataAnalystCat.__init__) and no
\* call made yet.
InitAnalyst ==
  /\ ClassifierIdle
  /\ user_request = <<>>
  /\ data_manager = None
  /\ data_analyst_cat = 1
  /\ constructed = [DataManagerCat |-> 0, DataAnalystCat |-> 1]
  /\ trace = <<>>
  /\ response = NoResponse
  /\ assets_exists \in BOOLEAN
  /\ files = {}
  /\ now = 0
  /\ HistoriesEmpty
  /\ MonitorConstructed
  /\ ErrorHandlerIdle
  /\ StorageCreated

NextAnalyst ==
  \/ CallAnalyzeData
  \/ Tick

SpecAnalyst == InitAnalyst /\ [][NextAnalyst]_vars

\* ---------------------------------------------------------------------------
\* The bounded history buffers
\* ---------------------------------------------------------------------------

\* self.max_history_length of the three classes.
ErrorHandlerCat_max_history_length == 100
MonitorCat_max_history_length == 1000
SystemCat_max_history_length == 100

\* ErrorHandlerCat._add_to_history with the newest entry removed on overflow.
ErrorHandlerCat_add_to_history_PopNewest(history, error_info) ==
  LET h == Append(history, error_info)
  IN  IF Len(h) > ErrorHandlerCat_max_history_length
      THEN SubSeq(h, 1, Len(h) - 1)
      ELSE h

\* ErrorHandlerCat._add_to_history: append, then pop(0) when the list has
\* grown past max_history_length.
ErrorHandlerCat_add_to_history(history, error_info) ==
  LET h == Append(history, error_info)
  IN  IF Len(h) > ErrorHandlerCat_max_history_length THEN Tail(h) ELSE h

\* MonitorCat._add_to_history: the same with the monitor's own maximum.
MonitorCat_add_to_history(history, metrics) ==
  LET h == Append(history, metrics)
  IN  IF Len(h) > MonitorCat_max_history_length THEN Tail(h) ELSE h

\* SystemCat._update_metrics_history: the same with SystemCat's maximum.
SystemCat_update_metrics_history(history, metrics) ==
  LET h == Append(history, metrics)
  IN  IF Len(h) > SystemCat_max_history_length THEN Tail(h) ELSE h

\* How many appends past its maximum a buffer is driven.
MaxOverflow == 2

Buffers == {"error_history", "monitoring_history", "metrics_history"}

MaxLengthOf(buffer) ==
  CASE buffer = "error_history"      -> ErrorHandlerCat_max_history_length
    [] buffer = "monitoring_history" -> MonitorCat_max_history_length
    [] buffer = "metrics_history"    -> SystemCat_max_history_length

\* The buffers belong to three independent objects, so one of them is
\* exercised per behaviour. The item appended is identified by its arrival
\* number, which makes every item distinct.
InitHistory ==
  /\ ClassifierIdle
  /\ ManagerConstructed
  /\ assets_exists = TRUE
  /\ MonitorConstructed
  /\ ErrorHandlerIdle
  /\ StorageCreated
  /\ exercised \in Buffers
  /\ appended = 0
  /\ error_history = <<>>
  /\ metrics_history = <<>>
  /\ monitoring_history = <<>>

CanAppend(buffer) ==
  /\ exercised = buffer
  /\ appended < MaxLengthOf(buffer) + MaxOverflow

\* handle_error records the error (error_handler_cat.py line 146).
ErrorHandlerAppend ==
  /\ CanAppend("error_history")
  /\ appended' = appended + 1
  /\ error_history' = ErrorHandlerCat_add_to_history(error_history, appended + 1)
  /\ UNCHANGED <<exercised, metrics_history, monitoring_history,
                 classifyVars, managerVars, monitorVars, errorVars, storageVars>>

\* One monitoring cycle records its metrics (monitor_cat.py line 213).
MonitorAppend ==
  /\ CanAppend("monitoring_history")
  /\ appended' = appended + 1
  /\ monitoring_history' =
       MonitorCat_add_to_history(monitoring_history, appended + 1)
  /\ UNCHANGED <<exercised, error_history, metrics_history,
                 classifyVars, managerVars, monitorVars, errorVars, storageVars>>

\* SystemCat records the metrics of a status request (system_cat.py line 232).
SystemAppend ==
  /\ CanAppend("metrics_history")
  /\ appended' = appended + 1
  /\ metrics_history' =
       SystemCat_update_metrics_history(metrics_history, appended + 1)
  /\ UNCHANGED <<exercised, error_history, monitoring_history,
                 classifyVars, managerVars, monitorVars, errorVars, storageVars>>

NextHistory == ErrorHandlerAppend \/ MonitorAppend \/ SystemAppend

SpecHistory == InitHistory /\ [][NextHistory]_vars

\* ---------------------------------------------------------------------------
\* MonitorCat: start_monitoring, stop_monitoring and the background loop
\* ---------------------------------------------------------------------------

\* How many foreground calls are made on the monitor, and how many loop
\* cycles its threads begin.
MaxCalls == 3
MaxCycles == 2

\* A start_monitoring call creates at most one thread.
Threads == 1..MaxCalls

\* self.thresholds (never reassigned after __init__).
thresholds == [cpu_percent |-> 80, memory_percent |-> 85, disk_percent |-> 90,
               process_count_max |-> 500, process_count_min |-> 10]

\* Two readings _collect_metrics may return: a quiet machine and a loaded one.
MetricsSamples ==
  { [cpu_percent |-> 40, memory_percent |-> 60, disk_percent |-> 50,
     process_count |-> 200],
    [cpu_percent |-> 95, memory_percent |-> 90, disk_percent |-> 50,
     process_count |-> 200] }

\* Arguments the caller passes to start_monitoring.
Intervals == {60, 5}
Callbacks == {"None", "on_alert"}

Alert(type, value, threshold, severity) ==
  [type |-> type, value |-> value, threshold |-> threshold,
   severity |-> severity]

\* MonitorCat._check_alerts: CPU, memory, disk, too many processes, too few
\* processes, in that order.
MonitorCat_check_alerts(metrics) ==
  (IF metrics.cpu_percent > thresholds.cpu_percent
   THEN <<Alert("CPU", metrics.cpu_percent, thresholds.cpu_percent,
                IF metrics.cpu_percent < 90 THEN "warning" ELSE "critical")>>
   ELSE <<>>)
  \o
  (IF metrics.memory_percent > thresholds.memory_percent
   THEN <<Alert("Memory", metrics.memory_percent, thresholds.memory_percent,
                IF metrics.memory_percent < 95 THEN "warning" ELSE "critical")>>
   ELSE <<>>)
  \o
  (IF metrics.disk_percent > thresholds.disk_percent
   THEN <<Alert("Disk", metrics.disk_percent, thresholds.disk_percent,
                IF metrics.disk_percent < 95 THEN "warning" ELSE "critical")>>
   ELSE <<>>)
  \o
  (IF metrics.process_count > thresholds.process_count_max
   THEN <<Alert("Process", metrics.process_count,
                thresholds.process_count_max, "warning")>>
   ELSE <<>>)
  \o
  (IF metrics.process_count < thresholds.process_count_min
   THEN <<Alert("Process", metrics.process_count,
                thresholds.process_count_min, "warning")>>
   ELSE <<>>)

\* Threads created so far, and Thread.is_alive().
Started == {w \in DOMAIN worker : worker[w].pc # "unstarted"}
IsAlive(w) == worker[w].pc \notin {"unstarted", "done"}

Call(op, interval, callback, ret) ==
  [op |-> op, interval |-> interval, alert_callback |-> callback, ret |-> ret]

\* start_monitoring with the new settings stored before the check of
\* monitoring_active.
MonitorCat_start_monitoring_AssignFirst(interval, callback) ==
  /\ caller = "idle"
  /\ calls < MaxCalls
  /\ calls' = calls + 1
  /\ monitoring_interval' = interval
  /\ alert_callback' = callback
  /\ IF monitoring_active
     THEN /\ last_call' = Call("start_monitoring", interval, callback, "False")
          /\ UNCHANGED <<monitoring_active, monitoring_thread, worker>>
     ELSE LET t == Cardinality(Started) + 1
          IN  /\ monitoring_active' = TRUE
              /\ monitoring_thread' = t
              /\ worker' = [worker EXCEPT ![t].pc = "while"]
              /\ last_call' = Call("start_monitoring", interval, callback, "True")
  /\ UNCHANGED <<caller, cycles, stopped, monitoring_history, exercised,
                 appended, error_history, metrics_history,
                 classifyVars, managerVars, errorVars, storageVars>>

\* MonitorCat.start_monitoring(interval, alert_callback): False when already
\* active; otherwise store the settings, set the flag, create and start a new
\* daemon thread running _monitoring_loop, and return True.
MonitorCat_start_monitoring(interval, callback) ==
  /\ caller = "idle"
  /\ calls < MaxCalls
  /\ calls' = calls + 1
  /\ IF monitoring_active
     THEN /\ last_call' = Call("start_monitoring", interval, callback, "False")
          /\ UNCHANGED <<monitoring_active, monitoring_interval,
                         alert_callback, monitoring_thread, worker>>
     ELSE LET t == Cardinality(Started) + 1
          IN  /\ monitoring_interval' = interval
              /\ alert_callback' = callback
              /\ monitoring_active' = TRUE
              /\ monitoring_thread' = t
              /\ worker' = [worker EXCEPT ![t].pc = "while"]
              /\ last_call' = Call("start_monitoring", interval, callback, "True")
  /\ UNCHANGED <<caller, cycles, stopped, monitoring_history, exercised,
                 appended, error_history, metrics_history,
                 classifyVars, managerVars, errorVars, storageVars>>

\* MonitorCat.stop_monitoring up to the join: False when inactive; otherwise
\* clear the flag and, if the thread is alive, wait for it in
\* join(timeout=2.0); with no live thread True is returned at once.
MonitorCat_stop_monitoring ==
  /\ caller = "idle"
  /\ calls < MaxCalls
  /\ calls' = calls + 1
  /\ IF ~monitoring_active
     THEN /\ last_call' = Call("stop_monitoring", 0, "None", "False")
          /\ UNCHANGED <<monitoring_active, caller, stopped>>
     ELSE /\ monitoring_active' = FALSE
          /\ IF monitoring_thread # None /\ IsAlive(monitoring_thread)
             THEN /\ caller' = "joining"
                  /\ last_call' = Call("stop_monitoring", 0, "None", "pending")
                  /\ UNCHANGED stopped
             ELSE /\ last_call' = Call("stop_monitoring", 0, "None", "True")
                  /\ stopped' = stopped \cup Started
                  /\ UNCHANGED caller
  /\ UNCHANGED <<monitoring_interval, alert_callback, monitoring_thread,
                 worker, cycles, historyVars, classifyVars, managerVars, errorVars, storageVars>>

\* stop_monitoring returns True once the join is over.
ReturnFromJoin ==
  /\ caller' = "idle"
  /\ last_call' = [last_call EXCEPT !.ret = "True"]
  /\ stopped' = stopped \cup Started
  /\ UNCHANGED <<monitoring_active, monitoring_interval, alert_callback,
                 monitoring_thread, worker, calls, cycles, historyVars,
                 classifyVars, managerVars, errorVars, storageVars>>

\* join(timeout=2.0) returns because the thread has ended.
JoinEnds ==
  /\ caller = "joining"
  /\ ~IsAlive(monitoring_thread)
  /\ ReturnFromJoin

\* join(timeout=2.0) returns because two seconds have passed; the thread is
\* still alive, in its cycle or in time.sleep(monitoring_interval).
JoinTimesOut ==
  /\ caller = "joining"
  /\ IsAlive(monitoring_thread)
  /\ ReturnFromJoin

\* Arguments the caller passes to get_monitoring_report.
TimeRanges == {"latest", "hour"}

\* Variant with a slip: the reading taken for the report is recorded in the
\* history.
MonitorCat_get_monitoring_report_Records(time_range, raises) ==
  /\ caller = "idle"
  /\ calls < MaxCalls
  /\ calls' = calls + 1
  /\ last_call' = Call("get_monitoring_report", 0, "None",
                       IF raises THEN "raised" ELSE time_range)
  /\ monitoring_history' =
       IF raises THEN monitoring_history
       ELSE MonitorCat_add_to_history(monitoring_history,
                                      CHOOSE m \in MetricsSamples : TRUE)
  /\ UNCHANGED <<monitoring_active, monitoring_interval, alert_callback,
                 monitoring_thread, worker, caller, cycles, stopped,
                 exercised, appended, error_history, metrics_history,
                 classifyVars, managerVars, errorVars, storageVars>>

\* MonitorCat.get_monitoring_report(time_range): reads the metrics of the
\* moment, monitoring_history and the thresholds, builds the request text
\* and returns the agent's answer; it assigns to no attribute. When
\* _collect_metrics or the agent raises, the exception leaves the method.
MonitorCat_get_monitoring_report(time_range, raises) ==
  /\ caller = "idle"
  /\ calls < MaxCalls
  /\ calls' = calls + 1
  /\ last_call' = Call("get_monitoring_report", 0, "None",
                       IF raises THEN "raised" ELSE time_range)
  /\ UNCHANGED <<monitoring_active, monitoring_interval, alert_callback,
                 monitoring_thread, worker, caller, cycles, stopped,
                 historyVars, classifyVars, managerVars, errorVars,
                 storageVars>>

GetMonitoringReport ==
  \E time_range \in TimeRanges, raises \in BOOLEAN :
    MonitorCat_get_monitoring_report(time_range, raises)

\* What a step of thread w leaves alone.
WorkerFrame ==
  UNCHANGED <<monitoring_active, monitoring_thread, monitoring_interval,
              alert_callback, caller, calls, last_call, stopped,
              exercised, appended, error_history, metrics_history,
              classifyVars, managerVars, errorVars, storageVars>>

\* Variant with a slip: "while True:", the flag is not read.
LoopTest_WhileTrue(w) ==
  /\ worker[w].pc = "while"
  /\ cycles < MaxCycles
  /\ cycles' = cycles + 1
  /\ worker' = [worker EXCEPT ![w].pc = "collect"]
  /\ UNCHANGED monitoring_history
  /\ WorkerFrame

\* _monitoring_loop, "while self.monitoring_active:": leave the loop when the
\* flag is clear, begin a cycle when it is set.
LoopTest(w) ==
  /\ worker[w].pc = "while"
  /\ IF monitoring_active
     THEN /\ cycles < MaxCycles
          /\ cycles' = cycles + 1
          /\ worker' = [worker EXCEPT ![w].pc = "collect"]
     ELSE /\ worker' = [worker EXCEPT ![w].pc = "done"]
          /\ UNCHANGED cycles
  /\ UNCHANGED monitoring_history
  /\ WorkerFrame

\* "metrics = self._collect_metrics()": a reading, or an exception that the
\* loop's except clause swallows, which ends the cycle. The records of the
\* cycle before (detected, delivered, raised) are cleared.
Collect(w, metrics, raises) ==
  /\ worker[w].pc = "collect"
  /\ worker' = IF raises
               THEN [worker EXCEPT ![w].pc = "sleep", ![w].detected = <<>>,
                                   ![w].delivered = <<>>,
                                   ![w].raised = "Exception"]
               ELSE [worker EXCEPT ![w].pc = "append", ![w].metrics = metrics,
                                   ![w].detected = <<>>,
                                   ![w].delivered = <<>>, ![w].raised = "no"]
  /\ UNCHANGED <<cycles, monitoring_history>>
  /\ WorkerFrame

\* "self._add_to_history(metrics)".
AddToHistory(w) ==
  /\ worker[w].pc = "append"
  /\ monitoring_history' =
       MonitorCat_add_to_history(monitoring_history, worker[w].metrics)
  /\ worker' = [worker EXCEPT ![w].pc = "check"]
  /\ UNCHANGED cycles
  /\ WorkerFrame

\* "alerts = self._check_alerts(metrics)" and
\* "if alerts and self.alert_callback:".
CheckAlerts(w) ==
  /\ worker[w].pc = "check"
  /\ LET alerts == MonitorCat_check_alerts(worker[w].metrics)
     IN  worker' = IF alerts # <<>> /\ alert_callback # "None"
                   THEN [worker EXCEPT ![w].pc = "callback",
                                       ![w].alerts = alerts,
                                       ![w].detected = alerts]
                   ELSE [worker EXCEPT ![w].pc = "sleep",
                                       ![w].detected = alerts]
  /\ UNCHANGED <<cycles, monitoring_history>>
  /\ WorkerFrame

\* What a call of the alert callback can do: return, raise an exception
\* that "except Exception" catches, or raise one it does not catch (a
\* BaseException that is no Exception, such as SystemExit from sys.exit()).
CallbackOutcomes == {"returns", "Exception", "BaseException"}

\* Variant with a slip: the try block is inside the for loop, so that an
\* exception of one callback call does not end the cycle.
Callback_TryInsideLoop(w, outcome) ==
  /\ worker[w].pc = "callback"
  /\ worker' =
       LET called == IF alert_callback = "None" THEN worker[w].delivered
                     ELSE Append(worker[w].delivered, Head(worker[w].alerts))
       IN  [worker EXCEPT
              ![w].pc = IF Len(worker[w].alerts) > 1 THEN "callback" ELSE "sleep",
              ![w].alerts = Tail(worker[w].alerts),
              ![w].delivered = called,
              ![w].raised = IF outcome = "returns" /\ alert_callback # "None"
                            THEN @ ELSE "Exception"]
  /\ UNCHANGED <<cycles, monitoring_history>>
  /\ WorkerFrame

\* One iteration of "for alert in alerts: self.alert_callback(alert)". The
\* attribute is read again at each call: if it has become None the call
\* raises TypeError. An exception the except clause catches ends the cycle;
\* one it does not catch ends the thread. `delivered` logs the alerts the
\* callback was called with in this cycle, `raised` the exception that was
\* raised in it.
Callback(w, outcome) ==
  /\ worker[w].pc = "callback"
  /\ worker' =
       IF alert_callback = "None"
       THEN [worker EXCEPT ![w].pc = "sleep", ![w].alerts = <<>>,
                           ![w].raised = "Exception"]
       ELSE LET called == Append(worker[w].delivered, Head(worker[w].alerts))
            IN  CASE outcome = "Exception" ->
                       [worker EXCEPT ![w].pc = "sleep", ![w].alerts = <<>>,
                                      ![w].delivered = called,
                                      ![w].raised = "Exception"]
                  [] outcome = "BaseException" ->
                       [worker EXCEPT ![w].pc = "done", ![w].alerts = <<>>,
                                      ![w].delivered = called,
                                      ![w].raised = "BaseException"]
                  [] OTHER ->
                       [worker EXCEPT
                          ![w].pc = IF Len(worker[w].alerts) > 1
                                    THEN "callback" ELSE "sleep",
                          ![w].alerts = Tail(worker[w].alerts),
                          ![w].delivered = called]
  /\ UNCHANGED <<cycles, monitoring_history>>
  /\ WorkerFrame

\* "time.sleep(self.monitoring_interval)" returns.
Sleep(w) ==
  /\ worker[w].pc = "sleep"
  /\ worker' = [worker EXCEPT ![w].pc = "while"]
  /\ UNCHANGED <<cycles, monitoring_history>>
  /\ WorkerFrame

StartMonitoring ==
  \E interval \in Intervals, callback \in Callbacks :
    MonitorCat_start_monitoring(interval, callback)

MonitorCat_monitoring_loop(w) ==
  \/ LoopTest(w)
  \/ \E metrics \in MetricsSamples, raises \in BOOLEAN :
       Collect(w, metrics, raises)
  \/ AddToHistory(w)
  \/ CheckAlerts(w)
  \/ \E outcome \in CallbackOutcomes : Callback(w, outcome)
  \/ Sleep(w)

InitMonitor ==
  /\ ClassifierIdle
  /\ ManagerConstructed
  /\ assets_exists = TRUE
  /\ HistoriesEmpty
  /\ MonitorCat_init(Threads)
  /\ ErrorHandlerIdle
  /\ StorageCreated

NextMonitor ==
  \/ StartMonitoring
  \/ MonitorCat_stop_monitoring
  \/ GetMonitoringReport
  \/ JoinEnds
  \/ JoinTimesOut
  \/ \E w \in Threads : MonitorCat_monitoring_loop(w)

SpecMonitor == InitMonitor /\ [][NextMonitor]_vars

\* The scheduling the liveness of the monitor rests on. Every live thread
\* gets processor time and each of its steps returns: _collect_metrics,
\* the alert callback and time.sleep(monitoring_interval) come back (or
\* raise). join(timeout=2.0) comes back after two seconds at the latest.
\* Nothing is assumed about how often the callers call.
MonitorFairness ==
  /\ \A w \in Threads : WF_vars(MonitorCat_monitoring_loop(w))
  /\ WF_vars(JoinEnds)
  /\ WF_vars(JoinTimesOut)

SpecMonitorFair == SpecMonitor /\ MonitorFairness

\* ---------------------------------------------------------------------------
\* ErrorHandlerCat: known patterns and the similarity search
\* ---------------------------------------------------------------------------

\* The literals _match_known_patterns looks for.
S_MemoryError == <<77, 101, 109, 111, 114, 121, 69, 114, 114, 111, 114>>  \* "MemoryError"
S_memory == <<109, 101, 109, 111, 114, 121>>  \* "memory"
S_database == <<100, 97, 116, 97, 98, 97, 115, 101>>  \* "database"
S_sql == <<115, 113, 108>>  \* "sql"
S_connection == <<99, 111, 110, 110, 101, 99, 116, 105, 111, 110>>  \* "connection"
S_FileNotFoundError == <<70, 105, 108, 101, 78, 111, 116, 70, 111, 117, 110, 100, 69, 114, 114, 111, 114>>  \* "FileNotFoundError"
S_permission == <<112, 101, 114, 109, 105, 115, 115, 105, 111, 110>>  \* "permission"
S_file == <<102, 105, 108, 101>>  \* "file"
S_ConnectionError == <<67, 111, 110, 110, 101, 99, 116, 105, 111, 110, 69, 114, 114, 111, 114>>  \* "ConnectionError"
S_timeout == <<116, 105, 109, 101, 111, 117, 116>>  \* "timeout"
S_network == <<110, 101, 116, 119, 111, 114, 107>>  \* "network"

\* The dict objects handed to handle_error: object i has identity i. Objects 1
\* and 2 are equal but distinct; object 4 has an empty message.
ErrorObjects ==
  <<
    \* {type: "MemoryError", message: "out of memory", context: "batch"}
    ErrorInfo(1, <<77, 101, 109, 111, 114, 121, 69, 114, 114, 111, 114>>,
              <<111, 117, 116, 32, 111, 102, 32, 109, 101, 109, 111, 114, 121>>,
              <<98, 97, 116, 99, 104>>),
    \* {type: "MemoryError", message: "out of memory", context: "batch"}
    ErrorInfo(2, <<77, 101, 109, 111, 114, 121, 69, 114, 114, 111, 114>>,
              <<111, 117, 116, 32, 111, 102, 32, 109, 101, 109, 111, 114, 121>>,
              <<98, 97, 116, 99, 104>>),
    \* {type: "MemoryError", message: "memory", context: "web"}
    ErrorInfo(3, <<77, 101, 109, 111, 114, 121, 69, 114, 114, 111, 114>>,
              <<109, 101, 109, 111, 114, 121>>,
              <<119, 101, 98>>),
    \* {type: "MemoryError", message: "", context: "batch"}
    ErrorInfo(4, <<77, 101, 109, 111, 114, 121, 69, 114, 114, 111, 114>>,
              <<>>,
              <<98, 97, 116, 99, 104>>),
    \* {type: "builtins.MemoryError", message: "out of memory error", context: "batch"}
    ErrorInfo(5, <<98, 117, 105, 108, 116, 105, 110, 115, 46, 77, 101, 109, 111, 114, 121, 69, 114, 114, 111, 114>>,
              <<111, 117, 116, 32, 111, 102, 32, 109, 101, 109, 111, 114, 121, 32, 101, 114, 114, 111, 114>>,
              <<98, 97, 116, 99, 104>>),
    \* {type: "ValueError", message: "Out of MEMORY: sql file timeout", context: "db"}
    ErrorInfo(6, <<86, 97, 108, 117, 101, 69, 114, 114, 111, 114>>,
              <<79, 117, 116, 32, 111, 102, 32, 77, 69, 77, 79, 82, 89, 58, 32, 115, 113, 108, 32, 102, 105, 108, 101, 32, 116, 105, 109, 101, 111, 117, 116>>,
              <<100, 98>>),
    \* {type: "MemoryError", message: "out of memory error", context: "cli"}
    ErrorInfo(7, <<77, 101, 109, 111, 114, 121, 69, 114, 114, 111, 114>>,
              <<111, 117, 116, 32, 111, 102, 32, 109, 101, 109, 111, 114, 121, 32, 101, 114, 114, 111, 114>>,
              <<99, 108, 105>>)
  >>

Pattern(pattern_id, confidence) ==
  [pattern_id |-> pattern_id, confidence |-> confidence]

\* _match_known_patterns with the two confidence constants of MEM001
\* exchanged.
ErrorHandlerCat_match_known_patterns_Swapped(error_info) ==
  LET error_type == error_info.type
      msg        == Lower(error_info.message)
  IN  (IF Contains(S_MemoryError, error_type) \/ Contains(S_memory, msg)
       THEN <<Pattern("MEM001",
                      IF Contains(S_MemoryError, error_type) THEN 50 ELSE 80)>>
       ELSE <<>>)
      \o
      (IF Contains(S_database, msg) \/ Contains(S_sql, msg)
          \/ Contains(S_connection, msg)
       THEN <<Pattern("DB001", IF Contains(S_sql, msg) THEN 70 ELSE 40)>>
       ELSE <<>>)
      \o
      (IF Contains(S_FileNotFoundError, error_type)
          \/ Contains(S_permission, msg) \/ Contains(S_file, msg)
       THEN <<Pattern("FILE001",
                      IF Contains(S_FileNotFoundError, error_type)
                      THEN 75 ELSE 50)>>
       ELSE <<>>)
      \o
      (IF Contains(S_ConnectionError, error_type)
          \/ Contains(S_timeout, msg) \/ Contains(S_network, msg)
       THEN <<Pattern("NET001",
                      IF Contains(S_ConnectionError, error_type)
                      THEN 70 ELSE 50)>>
       ELSE <<>>)

\* ErrorHandlerCat._match_known_patterns: the patterns MEM001, DB001, FILE001,
\* NET001 that apply, in that order. The type is searched as given, the
\* message lowercased. Confidences are in hundredths (0.8 is 80).
ErrorHandlerCat_match_known_patterns(error_info) ==
  LET error_type == error_info.type
      msg        == Lower(error_info.message)
  IN  (IF Contains(S_MemoryError, error_type) \/ Contains(S_memory, msg)
       THEN <<Pattern("MEM001",
                      IF Contains(S_MemoryError, error_type) THEN 80 ELSE 50)>>
       ELSE <<>>)
      \o
      (IF Contains(S_database, msg) \/ Contains(S_sql, msg)
          \/ Contains(S_connection, msg)
       THEN <<Pattern("DB001", IF Contains(S_sql, msg) THEN 70 ELSE 40)>>
       ELSE <<>>)
      \o
      (IF Contains(S_FileNotFoundError, error_type)
          \/ Contains(S_permission, msg) \/ Contains(S_file, msg)
       THEN <<Pattern("FILE001",
                      IF Contains(S_FileNotFoundError, error_type)
                      THEN 75 ELSE 50)>>
       ELSE <<>>)
      \o
      (IF Contains(S_ConnectionError, error_type)
          \/ Contains(S_timeout, msg) \/ Contains(S_network, msg)
       THEN <<Pattern("NET001",
                      IF Contains(S_ConnectionError, error_type)
                      THEN 70 ELSE 50)>>
       ELSE <<>>)

\* Variant with a slip: a message match counts 0.4.
SimilarityScore_MessageCountsMore(error, current) ==
  (IF error.type = current.type THEN 5 ELSE 0)
  + (IF error.message # <<>> /\ current.message # <<>>
        /\ (Contains(error.message, current.message)
            \/ Contains(current.message, error.message))
     THEN 4 ELSE 0)
  + (IF error.context = current.context THEN 2 ELSE 0)

\* The score _get_similar_errors_summary gives a history record against the
\* current error, in tenths (0.5, 0.3 and 0.2 are 5, 3 and 2; the float sums
\* 0.3 + 0.2, 0.5 + 0.2, 0.5 + 0.3 and 0.5 + 0.3 + 0.2 are exactly 0.5, 0.7,
\* 0.8 and 1.0). The messages are compared only when both are non-empty.
SimilarityScore(error, current) ==
  (IF error.type = current.type THEN 5 ELSE 0)
  + (IF error.message # <<>> /\ current.message # <<>>
        /\ (Contains(error.message, current.message)
            \/ Contains(current.message, error.message))
     THEN 3 ELSE 0)
  + (IF error.context = current.context THEN 2 ELSE 0)

Scored(error, score) == [error |-> error, score |-> score]

\* list.sort(key=score, reverse=True): descending by score, records of equal
\* score in their original order. `score` is the highest score to look for.
RECURSIVE SortDescending(_, _)
SortDescending(scored, score) ==
  IF score < 0 THEN <<>>
  ELSE SelectSeq(scored, LAMBDA p : p.score = score)
       \o SortDescending(scored, score - 1)

\* _get_similar_errors_summary with the threshold test written >=.
ErrorHandlerCat_get_similar_errors_summary_AtLeast(history, current) ==
  LET all    == [i \in 1..Len(history) |->
                   Scored(history[i], SimilarityScore(history[i], current))]
      kept   == SelectSeq(all, LAMBDA p : p.error.id # current.id
                                          /\ p.score >= 5)
      sorted == SortDescending(kept, 10)
  IN  SubSeq(sorted, 1, IF Len(sorted) < 3 THEN Len(sorted) ELSE 3)

\* ErrorHandlerCat._get_similar_errors_summary: every record of the history
\* that is not the current dict object itself is scored; those scoring more
\* than 0.5 are sorted by descending score and the first three are listed
\* (type, message, time and score of each).
ErrorHandlerCat_get_similar_errors_summary(history, current) ==
  LET all    == [i \in 1..Len(history) |->
                   Scored(history[i], SimilarityScore(history[i], current))]
      kept   == SelectSeq(all, LAMBDA p : p.error.id # current.id
                                          /\ p.score > 5)
      sorted == SortDescending(kept, 10)
  IN  SubSeq(sorted, 1, IF Len(sorted) < 3 THEN Len(sorted) ELSE 3)

\* How many errors are handled.
MaxErrors == 5

\* Variant with a slip: the patterns are matched before the error is logged
\* and recorded.
HandleErrorStatements_MatchFirst ==
  << "_match_known_patterns", "_log_error", "_add_to_history",
     "_get_similar_errors_summary", "agent.message", "_log_response" >>

\* The calls in the body of handle_error, in the order of execution:
\* self._log_error, self._add_to_history, self._match_known_patterns,
\* self._get_similar_errors_summary (while the request text is built),
\* self.agent.message, self._log_response; then the response is returned.
\* (_format_error_info and _format_known_patterns only build text.)
HandleErrorStatements ==
  << "_log_error", "_add_to_history", "_match_known_patterns",
     "_get_similar_errors_summary", "agent.message", "_log_response" >>

\* The effect of one statement of handle_error(error_info) on the history,
\* the matched patterns and the similar errors. Logging writes to the log
\* file and Agent.message to the agent's own message list; neither touches
\* the handler's attributes.
Execute(statement, error_info, st) ==
  CASE statement = "_add_to_history" ->
         [st EXCEPT !.error_history =
                      ErrorHandlerCat_add_to_history(@, error_info)]
    [] statement = "_match_known_patterns" ->
         [st EXCEPT !.known_patterns =
                      ErrorHandlerCat_match_known_patterns(error_info)]
    [] statement = "_get_similar_errors_summary" ->
         [st EXCEPT !.similar_errors =
                      ErrorHandlerCat_get_similar_errors_summary(
                        st.error_history, error_info)]
    [] OTHER -> st

RECURSIVE ExecuteAll(_, _, _)
ExecuteAll(statements, error_info, st) ==
  IF statements = <<>> THEN st
  ELSE ExecuteAll(Tail(statements), error_info,
                  Execute(Head(statements), error_info, st))

\* ErrorHandlerCat.handle_error(error_info) from call to return: the error
\* is logged and appended to the history, matched against the known
\* patterns, the similar errors are looked up in the history that now
\* contains it, the agent is asked and its response logged.
ErrorHandlerCat_handle_error(error_info) ==
  /\ Len(handling) \in {0, Len(HandleErrorStatements)}
  /\ Len(error_history) < MaxErrors
  /\ LET st == ExecuteAll(HandleErrorStatements, error_info,
                          [error_history |-> error_history,
                           known_patterns |-> <<>>, similar_errors |-> <<>>])
     IN  /\ error_history' = st.error_history
         /\ known_patterns' = st.known_patterns
         /\ similar_errors' = st.similar_errors
  /\ current_error' = error_info
  /\ handling' = HandleErrorStatements
  /\ UNCHANGED <<exercised, appended, metrics_history, monitoring_history,
                 classifyVars, managerVars, monitorVars, storageVars>>

HandleError ==
  \E i \in 1..Len(ErrorObjects) : ErrorHandlerCat_handle_error(ErrorObjects[i])

InitError ==
  /\ ClassifierIdle
  /\ ManagerConstructed
  /\ assets_exists = TRUE
  /\ HistoriesEmpty
  /\ MonitorConstructed
  /\ ErrorHandlerIdle
  /\ StorageCreated

NextError == HandleError

SpecError == InitError /\ [][NextError]_vars

\* How many errors are handled when handle_error is followed statement by
\* statement.
MaxStepped == 2

\* handle_error(error_info) is called and executes its first statement.
Enter(error_info) ==
  /\ Len(handling) \in {0, Len(HandleErrorStatements)}
  /\ Len(error_history) < MaxStepped
  /\ current_error' = error_info
  /\ handling' = <<HandleErrorStatements[1]>>
  /\ LET st == Execute(HandleErrorStatements[1], error_info,
                       [error_history |-> error_history,
                        known_patterns |-> <<>>, similar_errors |-> <<>>])
     IN  /\ error_history' = st.error_history
         /\ known_patterns' = st.known_patterns
         /\ similar_errors' = st.similar_errors
  /\ UNCHANGED <<exercised, appended, metrics_history, monitoring_history,
                 classifyVars, managerVars, monitorVars, storageVars>>

\* The next statement of the handle_error call in progress; after the last
\* one the response is returned.
Proceed ==
  /\ Len(handling) \in 1..(Len(HandleErrorStatements) - 1)
  /\ LET statement == HandleErrorStatements[Len(handling) + 1]
         st == Execute(statement, current_error,
                       [error_history |-> error_history,
                        known_patterns |-> known_patterns,
                        similar_errors |-> similar_errors])
     IN  /\ handling' = Append(handling, statement)
         /\ error_history' = st.error_history
         /\ known_patterns' = st.known_patterns
         /\ similar_errors' = st.similar_errors
  /\ UNCHANGED <<current_error, exercised, appended, metrics_history,
                 monitoring_history, classifyVars, managerVars, monitorVars,
                 storageVars>>

EnterHandleError == \E i \in 1..Len(ErrorObjects) : Enter(ErrorObjects[i])

NextErrorStepped ==
  \/ EnterHandleError
  \/ Proceed

SpecErrorStepped == InitError /\ [][NextErrorStepped]_vars

\* ---------------------------------------------------------------------------
\* SqliteAgentStorage: the messages table
\* ---------------------------------------------------------------------------

\* What a storage call leaves alone. The clock `now` is read by time.time().
StorageFrame ==
  UNCHANGED <<classifyVars, user_request, data_manager, data_analyst_cat,
              constructed, trace, response, assets_exists, files,
              historyVars, monitorVars, errorVars>>

\* How many save_message calls are made.
MaxMessages == 3

AgentIds == {"manager_cat", "data_manager_cat"}

\* A key the message dict does not have.
Absent == -1

\* The message dicts passed to save_message: 'id' is absent or chosen by the
\* caller (id 0; uuid4 values are 1, 2, ...), 'timestamp' is absent or given.
MessageDicts ==
  [id : {Absent, 0}, content : {"x", "y"}, timestamp : {Absent, 1}]

MessageRow(id, agent_id, role, content, timestamp) ==
  [id |-> id, agent_id |-> agent_id, role |-> role, content |-> content,
   timestamp |-> timestamp]

\* INSERT OR REPLACE INTO table: a row with the same primary key id is
\* removed, whatever its agent_id, and the new row gets a new rowid.
InsertOrReplace(table, row) ==
  Append(SelectSeq(table, LAMBDA r : r.id # row.id), row)

\* SqliteAgentStorage.save_message(agent_id, message) when time.time() reads
\* t. str(uuid.uuid4()) is evaluated as the default argument of get() even
\* when the dict has an 'id'. role is the default 'user'.
SqliteAgentStorage_save_message(agent_id, message, t) ==
  LET message_id == IF message.id = Absent THEN uuids + 1 ELSE message.id
      timestamp  == IF message.timestamp = Absent THEN t ELSE message.timestamp
      row        == MessageRow(message_id, agent_id, "user",
                               message.content, timestamp)
  IN  /\ Len(saved_messages) < MaxMessages
      /\ messages' = InsertOrReplace(messages, row)
      /\ saved_messages' = Append(saved_messages, row)
      /\ uuids' = uuids + 1
      /\ now' = t
      /\ storage_call' = StorageCall("save_message", agent_id, "",
                                     PyStr(message.content), message_id, FALSE)
      /\ UNCHANGED memories
      /\ StorageFrame

\* The dict get_messages builds from a row.
MessageOf(row) ==
  [id |-> row.id, role |-> row.role, content |-> row.content,
   timestamp |-> row.timestamp]

\* The orders in which "ORDER BY timestamp DESC" may deliver rows: any order
\* with non-increasing timestamps (SQL leaves the order of equal timestamps
\* open).
DescendingOrders(rows) ==
  {p \in Permutations(1..Len(rows)) :
     \A i \in 1..Len(rows), j \in 1..Len(rows) :
        i < j => rows[p[i]].timestamp >= rows[p[j]].timestamp}

\* Variant with a slip: the OFFSET is lost.
Window_NoOffset(seq, limit, offset) ==
  SubSeq(seq, 1, IF Len(seq) < limit THEN Len(seq) ELSE limit)

\* "LIMIT limit OFFSET offset" applied to a sequence.
Window(seq, limit, offset) ==
  SubSeq(seq, offset + 1,
         IF Len(seq) < offset + limit THEN Len(seq) ELSE offset + limit)

\* messages.sort(key=lambda x: x['timestamp']): ascending, equal timestamps
\* in their given order. t is the lowest timestamp to look for, last the
\* highest.
RECURSIVE SortByTimestamp(_, _, _)
SortByTimestamp(seq, t, last) ==
  IF t > last THEN <<>>
  ELSE SelectSeq(seq, LAMBDA m : m.timestamp = t)
       \o SortByTimestamp(seq, t + 1, last)

\* get_messages without "WHERE agent_id = ?".
SqliteAgentStorage_get_messages_NoFilter(agent_id, limit, offset) ==
  LET rows == messages
  IN  { SortByTimestamp(
          Window([i \in 1..Len(rows) |-> MessageOf(rows[p[i]])], limit, offset),
          0, MaxMessages + 1)
        : p \in DescendingOrders(rows) }

\* SqliteAgentStorage.get_messages(agent_id, limit, offset): the lists the
\* call may return, one for each order the database may deliver the rows in.
\* Timestamps lie in 0..MaxMessages + 1.
SqliteAgentStorage_get_messages(agent_id, limit, offset) ==
  LET rows == SelectSeq(messages, LAMBDA r : r.agent_id = agent_id)
  IN  { SortByTimestamp(
          Window([i \in 1..Len(rows) |-> MessageOf(rows[p[i]])], limit, offset),
          0, MaxMessages + 1)
        : p \in DescendingOrders(rows) }

\* A save_message call. The clock has moved on since the last call; equal and
\* out-of-order timestamps come from the timestamps callers give.
SaveMessage ==
  \E agent_id \in AgentIds, message \in MessageDicts :
    SqliteAgentStorage_save_message(agent_id, message, now + 1)

InitMessages ==
  /\ ClassifierIdle
  /\ ManagerConstructed
  /\ assets_exists = TRUE
  /\ HistoriesEmpty
  /\ MonitorConstructed
  /\ ErrorHandlerIdle
  /\ StorageCreated

NextMessages == SaveMessage

SpecMessages == InitMessages /\ [][NextMessages]_vars

\* ---------------------------------------------------------------------------
\* SqliteAgentStorage: the memories table
\* ---------------------------------------------------------------------------

\* How many save_memory calls are made.
MaxMemories == 2

MemoryKeys == {"topic", "mood"}

\* Values passed to save_memory: the strings 'plain' and '123', the int 123
\* and the tuple (1, 2).
PyInt123 == PyValue("int", "123")
PyTuple12 == PyValue("tuple", "(1, 2)")
PyList12 == PyValue("list", "[1, 2]")
MemoryValues == {PyStr("plain"), PyStr("123"), PyInt123, PyTuple12}

\* time.time(): the clock reads the same as at the last call (a coarse
\* clock), or later.
ClockReadings == {now, now + 1}

\* json.dumps(value) for the values above: a tuple is written as an array.
json_dumps(value) ==
  CASE value = PyInt123  -> "123"
    [] value = PyTuple12 -> "[1, 2]"
    [] value = PyList12  -> "[1, 2]"
    [] value = PyNone    -> "null"

\* json.loads(text): the value, or JSONDecodeError for text that is not JSON.
json_loads(text) ==
  CASE text = "123"    -> [raised |-> FALSE, value |-> PyInt123]
    [] text = "[1, 2]" -> [raised |-> FALSE, value |-> PyList12]
    [] text = "null"   -> [raised |-> FALSE, value |-> PyNone]
    [] OTHER           -> [raised |-> TRUE, value |-> PyNone]

\* save_memory, lines 170-171: a value that is not a str is stored as its JSON
\* text, a str as it is.
Serialize(value) ==
  IF value.type = "str" THEN value.literal ELSE json_dumps(value)

\* get_memory, lines 223-226: json.loads(value), or the text itself when that
\* raises JSONDecodeError.
Deserialize(text) ==
  LET loaded == json_loads(text)
  IN  IF loaded.raised THEN PyStr(text) ELSE loaded.value

MemoryRow(id, agent_id, key, value, timestamp) ==
  [id |-> id, agent_id |-> agent_id, key |-> key, value |-> value,
   timestamp |-> timestamp]

\* SqliteAgentStorage.save_memory(agent_id, key, value) when time.time()
\* reads t: the id is a new uuid4, so the INSERT OR REPLACE always inserts.
SqliteAgentStorage_save_memory(agent_id, key, value, t) ==
  LET memory_id == uuids + 1
  IN  /\ uuids < MaxMemories
      /\ memories' = InsertOrReplace(memories,
           MemoryRow(memory_id, agent_id, key, Serialize(value), t))
      /\ uuids' = uuids + 1
      /\ now' = t
      /\ storage_call' =
           StorageCall("save_memory", agent_id, key, value, memory_id, FALSE)
      /\ UNCHANGED <<messages, saved_messages>>
      /\ StorageFrame

Matches(row, agent_id, key) == row.agent_id = agent_id /\ row.key = key

\* SqliteAgentStorage.delete_memory(agent_id, key): every row of the pair is
\* deleted; True when there was one.
SqliteAgentStorage_delete_memory(agent_id, key) ==
  /\ memories' = SelectSeq(memories, LAMBDA r : ~Matches(r, agent_id, key))
  /\ storage_call' =
       StorageCall("delete_memory", agent_id, key, PyNone, 0,
                   Len(memories') < Len(memories))
  /\ UNCHANGED <<messages, saved_messages, uuids, now>>
  /\ StorageFrame

\* The rows "SELECT value ... WHERE agent_id = ? AND key = ? ORDER BY
\* timestamp DESC LIMIT 1" may deliver: a row of the pair with the highest
\* timestamp (SQL leaves the choice among equal timestamps open).
LatestRows(agent_id, key) ==
  {i \in 1..Len(memories) :
     /\ Matches(memories[i], agent_id, key)
     /\ \A j \in 1..Len(memories) :
          Matches(memories[j], agent_id, key)
            => memories[j].timestamp <= memories[i].timestamp}

\* get_memory returning None when the stored text is not JSON.
SqliteAgentStorage_get_memory_NoneOnFailure(agent_id, key) ==
  IF LatestRows(agent_id, key) = {}
  THEN {PyNone}
  ELSE {IF json_loads(memories[i].value).raised THEN PyNone
        ELSE json_loads(memories[i].value).value
        : i \in LatestRows(agent_id, key)}

\* SqliteAgentStorage.get_memory(agent_id, key): the values the call may
\* return, one for each row the query may deliver; None when there is no row.
SqliteAgentStorage_get_memory(agent_id, key) ==
  IF LatestRows(agent_id, key) = {}
  THEN {PyNone}
  ELSE {Deserialize(memories[i].value) : i \in LatestRows(agent_id, key)}

\* "SELECT DISTINCT key FROM memories WHERE agent_id = ?"
KeysOf(agent_id) ==
  {memories[i].key :
     i \in {j \in 1..Len(memories) : memories[j].agent_id = agent_id}}

PyValues == MemoryValues \cup {PyList12, PyNone}

\* SqliteAgentStorage.list_memories(agent_id): the dicts the call may return;
\* each key of the agent with the value of the row its query delivers.
SqliteAgentStorage_list_memories(agent_id) ==
  {d \in [KeysOf(agent_id) -> PyValues] :
     \A key \in KeysOf(agent_id) :
        \E i \in LatestRows(agent_id, key) :
           d[key] = Deserialize(memories[i].value)}

SaveMemory ==
  \E agent_id \in AgentIds, key \in MemoryKeys, value \in MemoryValues,
     t \in ClockReadings :
    SqliteAgentStorage_save_memory(agent_id, key, value, t)

DeleteMemory ==
  \E agent_id \in AgentIds, key \in MemoryKeys :
    SqliteAgentStorage_delete_memory(agent_id, key)

InitMemory == InitMessages

NextMemory == SaveMemory \/ DeleteMemory

SpecMemory == InitMemory /\ [][NextMemory]_vars
----------------------------------------------------------------------------
(* Keyword matches as the classification contract counts them              *)

\* The categories of each node that have a keyword set, in the node's
\* priority order, and the node's default category.
CategoriesOf(n) ==
  CASE n = "ManagerCat" ->
         << [name |-> "data", keywords |-> data_keywords],
            [name |-> "operation", keywords |-> operation_keywords],
            [name |-> "system", keywords |-> system_keywords] >>
    [] n = "DataManagerCat" ->
         << [name |-> "research_only", keywords |-> research_keywords],
            [name |-> "analysis_only", keywords |-> analysis_keywords] >>
    [] n = "OperationCat" ->
         << [name |-> "document", keywords |-> document_keywords],
            [name |-> "schedule", keywords |-> schedule_keywords] >>
    [] n = "SystemCat" ->
         << [name |-> "error", keywords |-> error_keywords],
            [name |-> "optimization", keywords |-> optimization_keywords],
            [name |-> "security", keywords |-> security_keywords],
            [name |-> "status", keywords |-> status_keywords] >>
    [] n = "SchedulerCat" ->
         << [name |-> "view", keywords |-> view_keywords],
            [name |-> "create", keywords |-> create_keywords],
            [name |-> "update", keywords |-> update_keywords],
            [name |-> "delete", keywords |-> delete_keywords] >>
    [] n = "DocumentCat" ->
         << [name |-> "email", keywords |-> email_keywords],
            [name |-> "report", keywords |-> report_keywords],
            [name |-> "meeting", keywords |-> meeting_keywords] >>
    [] OTHER -> << >>

DefaultOf(n) ==
  CASE n = "ManagerCat" -> "general"
    [] n = "DataManagerCat" -> "combined"
    [] n = "OperationCat" -> "combined"
    [] OTHER -> "other"

\* The number of keywords of a set that occur in a request, letter case of
\* Latin text aside.
MatchCount(keywords, req) ==
  LET lowered == Lower(req)
  IN  Cardinality({i \in 1..Len(keywords) :
                     Contains(Lower(keywords[i]), lowered)})

\* The match counts of node n's categories, in priority order.
Counts(n, req) ==
  LET cats == CategoriesOf(n)
  IN  [i \in 1..Len(cats) |-> MatchCount(cats[i].keywords, req)]

\* The indexes of the positive entries of a tuple of counts: the categories
\* with at least one matching keyword.
Positive(c) == {i \in 1..Len(c) : c[i] > 0}

Matched(n, req) == Positive(Counts(n, req))

\* The largest entry of a tuple of counts.
MaxOf(c) ==
  CHOOSE m \in {c[i] : i \in 1..Len(c)} : \A i \in 1..Len(c) : c[i] <= m

\* The entry of the counts c of node n for the category named t (0 for a
\* category that has no keyword set, such as "combined").
CountOf(n, t, c) ==
  LET cats == CategoriesOf(n)
      hit  == {i \in 1..Len(cats) : cats[i].name = t}
  IN  IF hit = {} THEN 0 ELSE c[CHOOSE i \in hit : TRUE]

\* The name of the first category, in priority order, among a non-empty set
\* of category indexes of node n.
FirstOf(n, ixs) ==
  CategoriesOf(n)[CHOOSE i \in ixs : \A j \in ixs : i <= j].name

Classified == node # "none"

----------------------------------------------------------------------------
(* C1 - C4: the classifiers                                                *)

\* C1: a request that contains no keyword of any category of a node (the
\* empty request included) is classified as the node's default category:
\* "general" at ManagerCat, "combined" at DataManagerCat and OperationCat,
\* "other" at SystemCat, SchedulerCat and DocumentCat.
C1_DefaultWhenNoKeyword ==
  Classified =>
    (Matched(node, request) = {} => request_type = DefaultOf(node))

C1_Witness ==
  /\ node = "SystemCat"
  /\ request # <<>>
  /\ request_type = "other"
  /\ Matched(node, request) = {}

\* C2: at ManagerCat, DataManagerCat, OperationCat, SystemCat and
\* SchedulerCat, a request whose matching keywords all belong to one
\* category is classified as that category, whether one or several of its
\* keywords match.
C2_SingleCategory ==
  node \in {"ManagerCat", "DataManagerCat", "OperationCat", "SystemCat",
            "SchedulerCat"}
  => LET hit == Matched(node, request)
     IN  Cardinality(hit) = 1 => request_type = FirstOf(node, hit)

C2_Witness ==
  /\ node = "SchedulerCat"
  /\ request_type = "view"
  /\ LET c == Counts(node, request)
     IN  Positive(c) = {1} /\ c[1] >= 2

\* C3: when at least one keyword matches, ManagerCat returns the first of
\* data, operation, system whose match count equals the maximum of the three
\* counts, so a tie goes to the category of higher priority.
C3_ManagerPriority ==
  node = "ManagerCat"
  => LET c == Counts(node, request)
         m == MaxOf(c)
     IN  m > 0 => request_type = FirstOf(node, {i \in 1..3 : c[i] = m})

C3_Witness ==
  /\ node = "ManagerCat"
  /\ request_type = "operation"
  /\ LET c == Counts(node, request)
     IN  c[1] < c[2] /\ c[2] = c[3]

\* C4 as claimed: below the root, when at least one keyword matches, the
\* returned category is one whose match count equals the maximum count over
\* the node's categories.
C4_ReturnsMaxCount ==
  node \in {"DataManagerCat", "OperationCat", "SystemCat", "SchedulerCat",
            "DocumentCat"}
  => LET c == Counts(node, request)
     IN  Positive(c) # {} => CountOf(node, request_type, c) = MaxOf(c)

\* C4 as amended: below the root the category is decided by which categories
\* have a matching keyword and never by how many. SystemCat and DocumentCat
\* return the first category of their order that has a match; SchedulerCat
\* returns "view" only when create, update and delete have none, and else the
\* first of those three that has a match; DataManagerCat and OperationCat
\* return a category only when it alone has a match and "combined" when both
\* have.
C4_ReturnsByPresence ==
  node \in {"DataManagerCat", "OperationCat", "SystemCat", "SchedulerCat",
            "DocumentCat"}
  => LET hit == Matched(node, request)
     IN  hit # {} =>
           CASE node \in {"SystemCat", "DocumentCat"} ->
                  request_type = FirstOf(node, hit)
             [] node = "SchedulerCat" ->
                  request_type = IF hit = {1} THEN "view"
                                 ELSE FirstOf(node, hit \ {1})
             [] OTHER ->
                  request_type = IF Cardinality(hit) = 1 THEN FirstOf(node, hit)
                                 ELSE "combined"

\* SystemCat returns "error" although "status" has more matching keywords.
C4_Witness ==
  /\ node = "SystemCat"
  /\ request_type = "error"
  /\ LET c == Counts(node, request) IN c[4] > c[1]

----------------------------------------------------------------------------
(* C5 - C7: delegation and lazy construction in the ManagerCat tree        *)

\* The calls of a trace, constructor calls left out.
RECURSIVE WithoutConstructors(_)
WithoutConstructors(tr) ==
  IF tr = <<>> THEN <<>>
  ELSE IF Head(tr).call \in {"DataManagerCat.__init__", "DataAnalystCat.__init__"}
       THEN WithoutConstructors(Tail(tr))
       ELSE <<Head(tr)>> \o WithoutConstructors(Tail(tr))

HasCall(call) == \E i \in 1..Len(trace) : trace[i].call = call
HasEvent(call, detail) == \E i \in 1..Len(trace) : trace[i] = Event(call, detail)

\* C5: the request "売上データを分析して" is classified "data" by ManagerCat,
\* forwarded to DataManagerCat.process_request, classified "analysis_only"
\* there, and DataAnalystCat.analyze_data is then called exactly once, with
\* a generated DataFrame; the steps happen in that order.
C5_SalesScenario ==
  user_request = SalesScenario =>
    WithoutConstructors(trace) =
      << Event("ManagerCat.process_request", ""),
         Event("ManagerCat._determine_request_type", "data"),
         Event("DataManagerCat.process_request", ""),
         Event("DataManagerCat._determine_request_type", "analysis_only"),
         Event("DataAnalystCat.analyze_data", "DataFrame") >>

C5_Witness ==
  /\ user_request = SalesScenario
  /\ response.template = "sales_analysis"
  /\ response.inner.kind = "report"

\* C6: _initialize_sub_agents_if_needed is idempotent: over any sequence of
\* process_request calls DataManagerCat and DataAnalystCat are each
\* constructed at most once, and a child reference, once set, is never
\* replaced or reset to None.
C6_ConstructedOnce ==
  /\ [](constructed.DataManagerCat <= 1 /\ constructed.DataAnalystCat <= 1)
  /\ [][/\ data_manager # None => data_manager' = data_manager
        /\ data_analyst_cat # None => data_analyst_cat' = data_analyst_cat]_vars

\* A request routed to the analysis specialist when both children exist
\* already: nothing is constructed.
C6_Witness ==
  /\ HasCall("DataAnalystCat.analyze_data")
  /\ ~HasCall("DataManagerCat.__init__")
  /\ ~HasCall("DataAnalystCat.__init__")
  /\ data_manager = 1
  /\ data_analyst_cat = 1

\* C7 as claimed: a child is constructed only by a request that is routed to
\* it: DataManagerCat only while handling a request classified "data",
\* DataAnalystCat only while handling a request forwarded to analyze_data.
C7_ConstructedWhenRouted ==
  /\ HasCall("DataManagerCat.__init__")
       => HasEvent("ManagerCat._determine_request_type", "data")
  /\ HasCall("DataAnalystCat.__init__")
       => HasCall("DataAnalystCat.analyze_data")

\* C7 as amended: a child is constructed by the first process_request call
\* of its parent, whatever the classification of that request.
\* ManagerCat.data_manager is None exactly until ManagerCat has handled a
\* first request (a "general", "operation" or "system" one constructs it
\* too); data_analyst_cat is None until a request classified "data" reaches
\* DataManagerCat.process_request and is set from then on, whatever
\* DataManagerCat classifies it as ("research_only" included).
C7_ConstructedOnFirstCall ==
  /\ [](/\ data_manager = None <=> trace = <<>>
        /\ HasCall("DataManagerCat.process_request")
             <=> HasEvent("ManagerCat._determine_request_type", "data")
        /\ HasCall("DataAnalystCat.__init__")
             => HasCall("DataManagerCat.process_request")
        /\ HasCall("DataManagerCat.process_request") => data_analyst_cat # None)
  /\ [][data_analyst_cat = None /\ data_analyst_cat' # None
          => HasCall("DataManagerCat.process_request")']_vars

\* A request that DataManagerCat classifies "research_only" constructs the
\* analysis specialist.
C7_Witness ==
  /\ HasCall("DataAnalystCat.__init__")
  /\ HasEvent("DataManagerCat._determine_request_type", "research_only")


\* ---------------------------------------------------------------------------
\* Claims about the history buffers and the monitor
\* ---------------------------------------------------------------------------

HistoryOf(buffer) ==
  CASE buffer = "error_history"      -> error_history
    [] buffer = "monitoring_history" -> monitoring_history
    [] buffer = "metrics_history"    -> metrics_history

\* The last n of the items 1..count, oldest first.
MostRecent(n, count) == [i \in 1..n |-> count - n + i]

Smaller(a, b) == IF a < b THEN a ELSE b

\* C8: after any sequence of appends each history buffer (error_history,
\* monitoring_history, metrics_history) is no longer than its
\* max_history_length, and it holds exactly the most recently appended items
\* in the order they were appended: an overflowing append removed the oldest.
C8_BoundedHistories ==
  \A buffer \in Buffers :
    LET history == HistoryOf(buffer)
        count   == IF exercised = buffer THEN appended ELSE 0
    IN  /\ Len(history) <= MaxLengthOf(buffer)
        /\ history = MostRecent(Smaller(count, MaxLengthOf(buffer)), count)

\* The error history has overflowed twice and now starts at the third item.
C8_Witness ==
  /\ exercised = "error_history"
  /\ appended = ErrorHandlerCat_max_history_length + 2
  /\ Len(error_history) = ErrorHandlerCat_max_history_length
  /\ Head(error_history) = 3

MonitorState ==
  <<monitoring_active, monitoring_interval, alert_callback, monitoring_thread>>

\* A foreground call of the given operation is made in this step.
Calling(op) == calls' = calls + 1 /\ last_call'.op = op

\* C9: start_monitoring called while monitoring is active returns False and
\* leaves monitoring_active, monitoring_interval, alert_callback and
\* monitoring_thread as they were; stop_monitoring called while monitoring is
\* inactive returns False and leaves the same four unchanged.
C9_NoOpWhenAlreadyInState ==
  [][ /\ (Calling("start_monitoring") /\ monitoring_active)
           => (last_call'.ret = "False" /\ UNCHANGED MonitorState)
      /\ (Calling("stop_monitoring") /\ ~monitoring_active)
           => (last_call'.ret = "False" /\ UNCHANGED MonitorState)
    ]_vars

\* start_monitoring was just refused while active, although it asked for
\* another interval and another callback than the ones in force.
C9_Witness ==
  /\ monitoring_active
  /\ last_call.op = "start_monitoring"
  /\ last_call.ret = "False"
  /\ last_call.interval # monitoring_interval
  /\ last_call.alert_callback # alert_callback

\* A step of thread w that collects metrics, appends to monitoring_history or
\* invokes the alert callback.
Collects(w) ==
  /\ worker[w].pc \in {"collect", "append", "callback"}
  /\ worker'[w] # worker[w]

\* C10: once stop_monitoring has returned True, a loop started before that
\* return collects no metrics, appends nothing to monitoring_history and
\* invokes no alert callback, whatever the interleaving and also after a
\* later start_monitoring.
C10_NoCollectionAfterStop ==
  [][\A w \in stopped : ~Collects(w)]_vars

\* Threads that are executing _monitoring_loop.
Running == {w \in DOMAIN worker : IsAlive(w)}

\* C11: whatever start_monitoring and stop_monitoring calls have been made,
\* at most one thread is executing _monitoring_loop; a stop followed by a
\* start does not leave two of them running.
C11_AtMostOneWorker == Cardinality(Running) <= 1

\* C12: no exception raised by DataAnalystCat.analyze_data leaves
\* DataManagerCat.process_request: whenever the specialist was called, the
\* request ends with a response composed by DataManagerCat (the analysis
\* result or the error message), never with a propagated exception.
C12_NeverPropagates ==
  HasCall("DataAnalystCat.analyze_data") => response.by = "DataManagerCat"

Guidance == [kind |-> "guidance", timestamp |-> 0]

\* C13: a call analyze_data(request, None) that returns gives the fixed
\* guidance text, the same for every request, and writes nothing: the set of
\* chart files and the output directory "assets" are as they were before.
C13_NoDataNoWrites ==
  [][ (HasEvent("DataAnalystCat.analyze_data", "None")'
         /\ response'.by # "exception")
      => /\ response'.inner = Guidance
         /\ files' = files
         /\ assets_exists' = assets_exists ]_vars

\* ---------------------------------------------------------------------------
\* Claims about ErrorHandlerCat
\* ---------------------------------------------------------------------------

Handled == current_error # NoError

HasMemoryErrorType == Contains(S_MemoryError, current_error.type)
MentionsMemory == Contains(S_memory, Lower(current_error.message))

MEM001Confidences ==
  {known_patterns[i].confidence : i \in
     {j \in 1..Len(known_patterns) : known_patterns[j].pattern_id = "MEM001"}}

\* C14: _match_known_patterns returns MEM001 whenever the error type contains
\* "MemoryError" or the lowercased message contains "memory"; the confidence
\* is 0.8 exactly when the type contains "MemoryError" and 0.5 otherwise; for
\* {type: "MemoryError", message: "out of memory"} MEM001 comes with 0.8.
C14_MemoryPattern ==
  Handled =>
    /\ (HasMemoryErrorType \/ MentionsMemory) =>
         MEM001Confidences = {IF HasMemoryErrorType THEN 80 ELSE 50}
    /\ (current_error.type = S_MemoryError
        /\ current_error.message = ErrorObjects[1].message) =>
         MEM001Confidences = {80}

\* The message alone names memory, in capitals, and MEM001 is found with the
\* lower confidence.
C14_Witness ==
  /\ Handled
  /\ ~HasMemoryErrorType
  /\ MentionsMemory
  /\ ~Contains(S_memory, current_error.message)
  /\ MEM001Confidences = {50}

Either(a, b) == Contains(a, b) \/ Contains(b, a)

\* The rubric as stated: +0.5 equal type, +0.3 either message contains the
\* other, +0.2 identical context (in tenths).
Rubric(error, current) ==
  (IF error.type = current.type THEN 5 ELSE 0)
  + (IF Either(error.message, current.message) THEN 3 ELSE 0)
  + (IF error.context = current.context THEN 2 ELSE 0)

\* The rubric with the message term given only when both messages are
\* non-empty.
GuardedRubric(error, current) ==
  (IF error.type = current.type THEN 5 ELSE 0)
  + (IF error.message # <<>> /\ current.message # <<>>
        /\ Either(error.message, current.message) THEN 3 ELSE 0)
  + (IF error.context = current.context THEN 2 ELSE 0)

\* The records before the one just appended, and the records that are not
\* the current dict object.
PriorRecords == 1..(Len(error_history) - 1)
OtherRecords ==
  {i \in 1..Len(error_history) : error_history[i].id # current_error.id}

\* similar_errors lists exactly the candidates whose score exceeds 0.5, by
\* descending score, cut to the best three. score(i) is the score of the
\* i-th record of the history.
TopThreeOf(candidates, score(_)) ==
  LET kept == {i \in candidates : score(i) > 5}
      n    == Len(similar_errors)
  IN  /\ n = (IF Cardinality(kept) < 3 THEN Cardinality(kept) ELSE 3)
      /\ \A j \in 1..n : \E i \in kept :
           /\ similar_errors[j].error = error_history[i]
           /\ similar_errors[j].score = score(i)
      /\ \A j \in 1..n, k \in 1..n :
           j < k => similar_errors[j].score >= similar_errors[k].score
      /\ \A i \in kept :
           \/ \E j \in 1..n : similar_errors[j].error = error_history[i]
           \/ n = 3 /\ score(i) <= similar_errors[3].score

RubricScore(i) == Rubric(error_history[i], current_error)
GuardedRubricScore(i) == GuardedRubric(error_history[i], current_error)

\* C15 as stated: every record that precedes the current error in
\* error_history is scored +0.5 for equal type, +0.3 when either message
\* contains the other, +0.2 for identical context; exactly the records
\* scoring more than 0.5 are kept, in descending order of score, and at most
\* the top 3 are reported.
C15_SimilaritySearch ==
  Handled => TopThreeOf(PriorRecords, RubricScore)

\* C15, amended: the records scored are those that are not the current dict
\* object itself, and the +0.3 is given only when both messages are
\* non-empty and one contains the other; the rest as stated.
C15_SimilaritySearchGuarded ==
  Handled => TopThreeOf(OtherRecords, GuardedRubricScore)

\* Four earlier records are similar to the current error and the three best
\* are reported, best first, the one scoring 0.7 being left out.
C15_Witness ==
  /\ Handled
  /\ Cardinality({i \in OtherRecords : GuardedRubricScore(i) > 5}) = 4
  /\ Len(similar_errors) = 3
  /\ similar_errors[1].score = 10
  /\ similar_errors[3].score = 8
  /\ \E i \in OtherRecords : GuardedRubricScore(i) = 7

\* ---------------------------------------------------------------------------
\* Claims about SqliteAgentStorage
\* ---------------------------------------------------------------------------

Limits == {1, 2, 50}
Offsets == {0, 1}

\* Everything some get_messages(agent_id, limit, offset) call may return.
Returned(agent_id) ==
  UNION { {ms[i] : i \in 1..Len(ms)} :
          ms \in UNION { SqliteAgentStorage_get_messages(agent_id, limit, offset) :
                         limit \in Limits, offset \in Offsets } }

SavedUnder(agent_id) ==
  {MessageOf(saved_messages[i]) :
     i \in {j \in 1..Len(saved_messages) : saved_messages[j].agent_id = agent_id}}

\* C16: after any sequence of save_message calls, whatever get_messages
\* returns for an agent_id is a message that was saved under that agent_id;
\* a message saved for one identity is never returned for another.
C16_MessagesIsolated ==
  \A agent_id \in AgentIds : Returned(agent_id) \subseteq SavedUnder(agent_id)

\* Two identities have saved a message under the same caller-chosen id with
\* different contents; the later one is returned, and only to its own
\* identity.
C16_Witness ==
  /\ Len(saved_messages) >= 2
  /\ saved_messages[1].agent_id = "manager_cat"
  /\ saved_messages[2].agent_id = "data_manager_cat"
  /\ saved_messages[1].id = saved_messages[2].id
  /\ saved_messages[1].content # saved_messages[2].content
  /\ MessageOf(saved_messages[2]) \in Returned("data_manager_cat")
  /\ Returned("manager_cat") = {}

\* The rows of a pair, in the order they were saved.
RowsOf(agent_id, key) ==
  SelectSeq(memories, LAMBDA r : Matches(r, agent_id, key))

\* The value of the most recent save_memory of the pair that no
\* delete_memory followed, as the store holds it; None when there is none.
LastWritten(agent_id, key) ==
  LET rows == RowsOf(agent_id, key)
  IN  IF rows = <<>> THEN PyNone ELSE Deserialize(rows[Len(rows)].value)

\* C17: named values are last-write-wins per (identity, key): get_memory
\* returns the value of the most recent save_memory of that pair not followed
\* by a delete_memory, None when there is none, and list_memories maps every
\* such key to that same value.
C17_LastWriteWins ==
  \A agent_id \in AgentIds :
    /\ \A key \in MemoryKeys :
         SqliteAgentStorage_get_memory(agent_id, key)
           = {LastWritten(agent_id, key)}
    /\ SqliteAgentStorage_list_memories(agent_id)
         = {[key \in KeysOf(agent_id) |-> LastWritten(agent_id, key)]}

\* The last call was a save_memory and the row it wrote is the one a query
\* for its pair delivers.
JustSaved ==
  /\ storage_call.op = "save_memory"
  /\ \A i \in LatestRows(storage_call.agent_id, storage_call.key) :
        memories[i].id = storage_call.id

SavedText ==
  memories[CHOOSE i \in 1..Len(memories) : memories[i].id = storage_call.id].value

ReadBack ==
  SqliteAgentStorage_get_memory(storage_call.agent_id, storage_call.key)

\* get_memory gives the structured value when the stored text parses and the
\* stored text itself, neither None nor an exception, when it does not.
ReadsStoredText ==
  /\ ~json_loads(SavedText).raised => ReadBack = {json_loads(SavedText).value}
  /\ json_loads(SavedText).raised => ReadBack = {PyStr(SavedText)}

\* C18 as stated: get_memory deserializes the stored text when it parses and
\* returns the raw text unchanged when it does not; a non-string value saved
\* with save_memory is read back equal to the value saved.
C18_RoundTrip ==
  JustSaved =>
    /\ ReadsStoredText
    /\ storage_call.value.type # "str" => ReadBack = {storage_call.value}

\* C18, amended: as stated, except that a non-string value is read back as
\* json.loads(json.dumps(value)), which equals the value saved for the int
\* but is the list [1, 2] for the tuple (1, 2).
C18_RoundTripThroughJson ==
  JustSaved =>
    /\ ReadsStoredText
    /\ storage_call.value.type \notin {"str", "tuple"} =>
         ReadBack = {storage_call.value}
    /\ storage_call.value = PyTuple12 => ReadBack = {PyList12}

\* The string 'plain' was saved; its text is not JSON and is read back as it
\* was stored.
C18_Witness ==
  /\ JustSaved
  /\ storage_call.value = PyStr("plain")
  /\ json_loads(SavedText).raised
  /\ ReadBack = {PyStr("plain")}
----------------------------------------------------------------------------
(* C19: what ManagerCat.process_request returns                            *)

\* What DataManagerCat.process_request does with the request of this step,
\* on the state the step starts from, when the specialist raises or not.
Forwarded(fails) ==
  DataManagerCat_process_request(
    user_request', data_analyst_cat, constructed.DataAnalystCat, fails,
    [assets_exists |-> assets_exists, files |-> files], now)

\* A step that handles a request (the clock stands still during it).
HandlesRequest == now' = now /\ trace' # <<>>

TypeOfRequest == ManagerCat_determine_request_type(user_request')

\* C19: for a request classified "data", what ManagerCat.process_request
\* returns is the response of DataManagerCat.process_request, unchanged;
\* for a request classified "operation", "system" or "general" it returns
\* the static text of that class under ManagerCat's header and
\* process_request of no child manager is called.
C19_VerbatimOrFallback ==
  [][ HandlesRequest =>
        /\ (TypeOfRequest = "data" /\ response'.by # "exception")
             => \E fails \in BOOLEAN :
                  /\ ~Forwarded(fails).raised
                  /\ response' = Forwarded(fails).response
                  /\ HasCall("DataManagerCat.process_request")'
        /\ TypeOfRequest # "data"
             => /\ response' =
                     [by |-> "ManagerCat",
                      template |->
                        CASE TypeOfRequest = "operation" -> "operation_unimplemented"
                          [] TypeOfRequest = "system" -> "system_unimplemented"
                          [] OTHER -> "general",
                      inner |-> NoInner]
                /\ ~HasCall("DataManagerCat.process_request")' ]_vars

\* Both cases have happened in one session: a request answered with
\* ManagerCat's own fallback text after an analysis report was produced.
C19_Witness ==
  /\ response.by = "ManagerCat"
  /\ response.template = "system_unimplemented"
  /\ files # {}
  /\ data_analyst_cat # None

----------------------------------------------------------------------------
(* C20: the monitoring loop ends after stop_monitoring                     *)

\* Thread w passes "while self.monitoring_active:" in this step.
TestsFlag(w) == worker[w].pc = "while" /\ worker'[w].pc # "while"

\* The step in which join(timeout=2.0) comes back to stop_monitoring.
JoinReturns == caller = "joining" /\ caller' = "idle"

\* C20: once stop_monitoring has cleared the flag, and unless a later
\* start_monitoring sets it again, every live monitoring thread leaves the
\* loop: a thread that tests the flag while it is clear ends instead of
\* beginning another cycle, and with the threads scheduled fairly all of
\* them end. stop_monitoring waits in join for a bounded time only: the
\* join comes back, True is returned whether the thread has ended or not,
\* and the return does not touch the thread.
C20_LoopExitsAfterStop ==
  /\ [][\A w \in Threads :
          (TestsFlag(w) /\ ~monitoring_active) => worker'[w].pc = "done"]_vars
  /\ (~monitoring_active /\ Running # {}) ~> (monitoring_active \/ Running = {})
  /\ (caller = "joining") ~> (caller = "idle" /\ last_call.ret = "True")
  /\ [][JoinReturns =>
          /\ worker' = worker
          /\ last_call'.op = "stop_monitoring"
          /\ last_call'.ret = "True"]_vars

\* stop_monitoring has returned True after the join timed out: the thread
\* it was called on has completed a cycle and is still alive, in
\* time.sleep, with the flag clear; its exit is still to come.
C20_Witness ==
  /\ ~monitoring_active
  /\ caller = "idle"
  /\ last_call.op = "stop_monitoring"
  /\ last_call.ret = "True"
  /\ monitoring_history # <<>>
  /\ \E w \in stopped : worker[w].pc = "sleep"
----------------------------------------------------------------------------
(* C21, C25, C30: the cycle of the monitoring loop                         *)

\* Thread w takes a step.
Steps(w) == worker'[w] # worker[w]

\* Thread w ends the alert part of its cycle in this step.
EndsDelivery(w) ==
  /\ worker[w].pc \in {"check", "callback"}
  /\ worker'[w].pc \notin {"check", "callback"}

IsPrefix(s, t) == Len(s) <= Len(t) /\ s = SubSeq(t, 1, Len(s))

\* C21: in every cycle the metrics are collected, then appended to
\* monitoring_history, then the thresholds are evaluated, then the callback
\* is called once for each alert of the cycle in the order of detection;
\* when a callback is set, every alert detected in the cycle has been
\* delivered to it by the time the cycle ends.
C21_OrderAndDelivery ==
  [][\A w \in Threads : Steps(w) =>
       /\ worker'[w].pc = "append" => worker[w].pc = "collect"
       /\ worker'[w].pc = "check"
            => /\ worker[w].pc = "append"
               /\ monitoring_history' =
                    MonitorCat_add_to_history(monitoring_history, worker[w].metrics)
       /\ worker'[w].pc = "callback" => worker[w].pc \in {"check", "callback"}
       /\ worker[w].pc = "check"
            => worker'[w].detected = MonitorCat_check_alerts(worker[w].metrics)
       /\ IsPrefix(worker'[w].delivered, worker'[w].detected)
       /\ (EndsDelivery(w) /\ alert_callback # "None")
            => worker'[w].delivered = worker'[w].detected ]_vars

\* C25: monitoring_history changes only in the append step of a monitoring
\* thread: no step of start_monitoring, stop_monitoring or
\* get_monitoring_report changes it, and get_monitoring_report leaves
\* monitoring_active, alert_callback and the other attributes as they
\* were. (self.thresholds is assigned in __init__ only and is a definition
\* here.)
C25_OnlyLoopWrites ==
  [][ /\ monitoring_history' # monitoring_history
           => /\ \E w \in Threads :
                   worker[w].pc = "append" /\ worker'[w].pc = "check"
              /\ calls' = calls /\ caller' = caller
      /\ (calls' # calls \/ caller' # caller)
           => monitoring_history' = monitoring_history
      /\ Calling("get_monitoring_report")
           => UNCHANGED <<MonitorState, worker, monitoring_history>> ]_vars

\* get_monitoring_report was called while monitoring is active, the history
\* holds a reading and a thread is about to append the next one.
C25_Witness ==
  /\ last_call.op = "get_monitoring_report"
  /\ monitoring_active
  /\ monitoring_history # <<>>
  /\ \E w \in Threads : worker[w].pc = "append"

\* An exception is raised in thread w in this step.
Raises(w, kinds) ==
  /\ Steps(w)
  /\ worker[w].pc \in {"collect", "callback"}
  /\ worker'[w].raised \in kinds

\* What the loop does from an exception on: the rest of the cycle is
\* skipped, remaining callbacks included, then the interval is waited and,
\* monitoring being active, the next cycle begins.
SkipsToNextCycle(kinds) ==
  \A w \in Threads :
    /\ Raises(w, kinds)
         => /\ worker'[w].pc = "sleep"
            /\ worker'[w].alerts = <<>>
            /\ monitoring_history' = monitoring_history
            /\ UNCHANGED MonitorState
    /\ (worker[w].raised \in kinds /\ Steps(w))
         => /\ \/ worker[w].pc = "sleep" /\ worker'[w].pc = "while"
               \/ worker[w].pc = "while"
               \/ worker[w].pc = "collect"
            /\ UNCHANGED MonitorState
    /\ (worker[w].pc = "while" /\ Steps(w) /\ monitoring_active)
         => worker'[w].pc = "collect"

\* C30 as claimed: whatever exception metric collection or the alert
\* callback raises, the loop goes on as described.
C30_ExceptionsSwallowed ==
  [][SkipsToNextCycle({"Exception", "BaseException"})]_vars

\* C30 as amended: so it is for an exception that is an instance of
\* Exception; one that is not (raised by the callback) ends the thread at
\* once and leaves monitoring_active as it was.
C30_ExceptionSubclassesSwallowed ==
  [][ /\ SkipsToNextCycle({"Exception"})
      /\ \A w \in Threads :
           Raises(w, {"BaseException"})
             => /\ worker[w].pc = "callback"
                /\ worker'[w].pc = "done"
                /\ UNCHANGED MonitorState ]_vars

\* The cycle after one in which the callback raised on the first of two
\* alerts has begun: the second alert was not delivered, the reading of
\* that cycle is in the history and monitoring is still active.
C30_Witness ==
  /\ monitoring_active
  /\ \E w \in Threads :
       /\ worker[w].pc = "collect"
       /\ worker[w].raised = "Exception"
       /\ Len(worker[w].detected) = 2
       /\ Len(worker[w].delivered) = 1
  /\ monitoring_history # <<>>
----------------------------------------------------------------------------
(* C22: when DataManagerCat attaches a dataset                             *)

\* "売上" and "分析" both occur in the request.
HasBothWords(req) ==
  /\ \E i \in 1..Len(req) - 1 : SubSeq(req, i, i + 1) = <<22770, 19978>>
  /\ \E i \in 1..Len(req) - 1 : SubSeq(req, i, i + 1) = <<20998, 26512>>

\* C22: DataManagerCat.process_request calls analyze_data with a dataset if
\* and only if the request is not classified "research_only" and contains
\* both "売上" and "分析"; otherwise the specialist is called without data
\* or not at all.
C22_DatasetOnlyForSalesAnalysis ==
  HasCall("DataManagerCat.process_request") =>
    /\ HasEvent("DataAnalystCat.analyze_data", "DataFrame")
         <=> /\ DataManagerCat_determine_request_type(user_request)
                  # "research_only"
             /\ HasBothWords(user_request)
    /\ \A i \in 1..Len(trace) :
         trace[i].call = "DataAnalystCat.analyze_data"
           => trace[i].detail \in {"DataFrame", "None"}

\* A request with both words that is classified neither "research_only" nor
\* "analysis_only" was answered with the analysis of the generated dataset.
C22_Witness ==
  /\ response.template = "combined_sales_analysis"
  /\ HasEvent("DataAnalystCat.analyze_data", "DataFrame")
  /\ HasBothWords(user_request)

----------------------------------------------------------------------------
(* C24, C27: DataAnalystCat                                                *)

\* C24: any two runs of the data analysis in one process write to distinct
\* file paths, whatever the time between them: the chart files an analysis
\* writes are none of the files an earlier analysis wrote.
C24_DistinctChartFiles ==
  [][ (HandlesRequest /\ response'.inner.kind = "report")
        => response'.inner.timestamp \notin files ]_vars

\* C27 as claimed: a call of analyze_data that returns gives the guidance
\* text exactly when no data was passed; with a DataFrame, a list or a dict
\* it returns the report of the analysis.
C27_GuidanceOnlyWithoutData ==
  (trace # <<>> /\ response.by = "DataAnalystCat")
    => (response.inner.kind = "guidance" <=> trace[1].detail = "None")
----------------------------------------------------------------------------
(* C23: the phases of ErrorHandlerCat.handle_error                         *)

Done(statement) == \E i \in 1..Len(handling) : handling[i] = statement

\* The phase handle_error is in, by the statement it executed last:
\* COLLECTING until the error is logged and recorded, MATCHING_PATTERNS
\* until the known patterns and the similar errors are found, REPORTING
\* until the agent has answered and the answer is logged.
Phase ==
  IF handling = <<>> THEN "IDLE"
  ELSE CASE handling[Len(handling)] = "_log_error" -> "COLLECTING"
         [] handling[Len(handling)] \in
              {"_add_to_history", "_match_known_patterns"} -> "MATCHING_PATTERNS"
         [] handling[Len(handling)] \in
              {"_get_similar_errors_summary", "agent.message"} -> "REPORTING"
         [] OTHER -> "IDLE"

PhaseOrder ==
  { <<"IDLE", "COLLECTING">>, <<"COLLECTING", "MATCHING_PATTERNS">>,
    <<"MATCHING_PATTERNS", "REPORTING">>, <<"REPORTING", "IDLE">> }

\* C23: a handle_error call goes from IDLE through COLLECTING,
\* MATCHING_PATTERNS and REPORTING back to IDLE, in that order; no step of
\* it is skipped or repeated and the agent is asked exactly once, after the
\* similarity search and before the response is logged; the error is in
\* the history before the patterns are matched and before the agent is
\* asked.
C23_PhasesInOrder ==
  /\ [][Phase' # Phase => <<Phase, Phase'>> \in PhaseOrder]_vars
  /\ [](IsPrefix(handling,
                 << "_log_error", "_add_to_history", "_match_known_patterns",
                    "_get_similar_errors_summary", "agent.message",
                    "_log_response" >>))
  /\ []((Done("_match_known_patterns") \/ Done("agent.message"))
          => /\ Done("_add_to_history")
             /\ error_history # <<>>
             /\ error_history[Len(error_history)] = current_error)

\* The second error is being reported: the agent has answered, the response
\* is not logged yet, and an earlier error was found similar.
C23_Witness ==
  /\ Phase = "REPORTING"
  /\ Done("agent.message")
  /\ Len(error_history) = 2
  /\ similar_errors # <<>>

----------------------------------------------------------------------------
(* C29: what the similarity search can report                              *)

Reported == {similar_errors[i].error : i \in 1..Len(similar_errors)}

\* C29: the error being handled is in the history when the similar errors
\* are looked up, and is never among them; a record is reported as similar
\* only if its type equals the type of the current error.
C29_SimilarNeedsSameType ==
  Handled =>
    /\ error_history[Len(error_history)] = current_error
    /\ \A e \in Reported :
         /\ e.id # current_error.id
         /\ e.type = current_error.type

\* The history holds a record of another type whose message contains the
\* current message and whose context is the same (score 0.5): it is not
\* reported, while a record of the same type is.
C29_Witness ==
  /\ Handled
  /\ Reported # {}
  /\ \E i \in 1..Len(error_history) :
       LET e == error_history[i]
       IN  /\ e.type # current_error.type
           /\ e.context = current_error.context
           /\ e.message # <<>> /\ current_error.message # <<>>
           /\ Contains(current_error.message, e.message)
           /\ e \notin Reported
----------------------------------------------------------------------------
(* C26, C28: the messages of an identity                                   *)

\* The stored messages of an identity, in the order they were saved.
StoredFor(agent_id) ==
  SelectSeq(messages, LAMBDA r : r.agent_id = agent_id)

Own(agent_id) ==
  {MessageOf(StoredFor(agent_id)[i]) : i \in 1..Len(StoredFor(agent_id))}

DistinctTimestamps(agent_id) ==
  \A m1, m2 \in Own(agent_id) : m1 # m2 => m1.timestamp # m2.timestamp

\* How many messages of the identity are more recent than m.
Newer(m, agent_id) ==
  Cardinality({x \in Own(agent_id) : x.timestamp > m.timestamp})

\* The messages left after skipping the `offset` most recent and taking the
\* next `limit` most recent.
LastN(agent_id, limit, offset) ==
  {m \in Own(agent_id) :
     Newer(m, agent_id) >= offset /\ Newer(m, agent_id) < offset + limit}

\* C26: get_messages(agent_id, limit, offset) returns at most `limit`
\* messages; when the stored messages of the identity have distinct
\* timestamps it returns exactly those that remain after skipping the
\* `offset` most recent and taking the next `limit` most recent, in
\* ascending order of timestamp.
C26_LastMessages ==
  \A agent_id \in AgentIds, limit \in Limits, offset \in Offsets :
    \A ms \in SqliteAgentStorage_get_messages(agent_id, limit, offset) :
      /\ Len(ms) <= limit
      /\ DistinctTimestamps(agent_id)
           => /\ {ms[i] : i \in 1..Len(ms)} = LastN(agent_id, limit, offset)
              /\ \A i \in 1..Len(ms), j \in 1..Len(ms) :
                   i < j => ms[i].timestamp < ms[j].timestamp

\* An identity has two messages, the one saved first carrying the later
\* timestamp: get_messages(agent_id, 1, 1) returns the one saved last.
C26_Witness ==
  \E agent_id \in AgentIds :
    /\ Len(StoredFor(agent_id)) = 2
    /\ StoredFor(agent_id)[1].timestamp > StoredFor(agent_id)[2].timestamp
    /\ SqliteAgentStorage_get_messages(agent_id, 1, 1)
         = {<<MessageOf(StoredFor(agent_id)[2])>>}

\* C28: a save_message call for one identity removes or alters no stored
\* message of another identity: what get_messages returned for the other
\* identity before the call it still returns after it, also when the
\* message dict carries an 'id' chosen by the caller.
C28_OthersMessagesKept ==
  [][\A agent_id \in AgentIds :
       (saved_messages' # saved_messages /\ storage_call'.agent_id # agent_id)
         => Returned(agent_id) \subseteq Returned(agent_id)']_vars
====
